---- MODULE Spec2Model ----
(***************************************************************************)
(* gene-palette: the timeline sampler (utils/animation), the force-field   *)
(* particle system (BioParticleSystem) and the timeline animation driver   *)
(* (TimelineAnimator), modelled as state machines.                         *)
(*                                                                         *)
(* Numbers.  The sampler works on exact rationals <<num, den>> (den > 0,   *)
(* reduced), so that interpolation and progress are computed, not assumed. *)
(***************************************************************************)
EXTENDS Integers, Sequences, FiniteSets, TLC

VARIABLES
    timeline,       \* sampler / driver: the TimelineData object handed in (sort mutates it)
    fps,            \* sampler: the fps argument
    frames,         \* sampler: the returned AnimationFrame[]; driver: framesRef.current
    samplerPc,      \* sampler: "ready" | "done" | "threw"
    genes,          \* force field: the genes prop of the current render
    particles,      \* force field: particlesRef.current
    ffPhase,        \* force field: which effect of the commit runs next: "init" | "anim" | "idle"
    loopOn,         \* force field: a requestAnimationFrame(animate) is pending
    ticks,          \* force field: calls of animate() so far
    tickLog,        \* force field: what the last animate() applied and drew
    selectedGene,   \* force field: the selectedGene state (and its ref, synced on commit)
    mode,           \* driver: the mode prop (palette)
    animParticles,  \* driver: particlesRef.current
    animationState, \* driver: the AnimationState held by useState
    drvStatus,      \* driver: "mounting" | "running" | "crashed" (an effect threw)
    advances,       \* driver: calls of updateParticles so far
    activeTimeline, \* App: the uploaded timeline held by useState, NoTimeline for null
    timelineSource, \* App: "sample1" | "sample2" | "custom"
    timelineError,  \* App: the error message shown, NoError for null
    appPc,          \* App: where handleTimelineLoad is when its updates are not batched
    callArgs,       \* a call of a pure function: its arguments
    callResult,     \* a call of a pure function: what it returned
    lastOp          \* the path the last step took

samplerVars == <<timeline, fps, frames, samplerPc>>
ffVars == <<genes, particles, ffPhase, loopOn, ticks, tickLog, selectedGene>>
drvVars == <<mode, animParticles, animationState, drvStatus, advances>>
callVars == <<callArgs, callResult>>
appVars == <<activeTimeline, timelineSource, timelineError, appPc>>
vars == <<timeline, fps, frames, samplerPc, genes, particles, ffPhase, loopOn, ticks,
          tickLog, selectedGene, mode, animParticles, animationState, drvStatus, advances, callArgs,
          callResult, activeTimeline, timelineSource, timelineError, appPc, lastOp>>

(***************************************************************************)
(* Exact rational arithmetic                                               *)
(***************************************************************************)
Abs(x) == IF x < 0 THEN -x ELSE x

RECURSIVE GCD(_, _)
GCD(a, b) == IF b = 0 THEN a ELSE GCD(b, a % b)

\* the reduced fraction n/d, d # 0
Rat(n, d) ==
    LET g == GCD(Abs(n), Abs(d))
        s == IF d < 0 THEN -1 ELSE 1
    IN  <<(s * n) \div g, (s * d) \div g>>

RInt(n)    == <<n, 1>>
RAdd(p, q) == Rat(p[1] * q[2] + q[1] * p[2], p[2] * q[2])
RSub(p, q) == Rat(p[1] * q[2] - q[1] * p[2], p[2] * q[2])
RMul(p, q) == Rat(p[1] * q[1], p[2] * q[2])
RDiv(p, q) == Rat(p[1] * q[2], p[2] * q[1])
RLe(p, q)  == p[1] * q[2] <= q[1] * p[2]
RLt(p, q)  == p[1] * q[2] < q[1] * p[2]
RMin(p, q) == IF RLe(p, q) THEN p ELSE q
RMax(p, q) == IF RLe(p, q) THEN q ELSE p

\* Math.ceil of a rational
Ceil(q) == -((-q[1]) \div q[2])

(***************************************************************************)
(* utils/animation: interpolateGenes                                       *)
(***************************************************************************)
Gene(s, v, d) == [symbol |-> s, value |-> RInt(v), description |-> d]

\* every occurrence kept
KeepAll(seq, seen) == seq

RECURSIVE Dedupe(_, _)
\* the keys of a Map, in insertion order: first occurrences of seq after seen
Dedupe(seq, seen) ==
    IF seq = <<>> THEN <<>>
    ELSE IF Head(seq) \in seen THEN Dedupe(Tail(seq), seen)
    ELSE <<Head(seq)>> \o Dedupe(Tail(seq), seen \cup {Head(seq)})

SymbolsOf(gl) == {gl[i].symbol : i \in 1..Len(gl)}

\* geneMap.set(symbol, {a: gene, ...geneMap.get(symbol)}): an entry already
\* present overrides the new one, so the first occurrence of a symbol stays
FirstOf(gl, symbol) ==
    gl[CHOOSE i \in 1..Len(gl) :
          /\ gl[i].symbol = symbol
          /\ \A j \in 1..(i - 1) : gl[j].symbol # symbol]

\* the interpolation taken from b towards a
interpolateGenesSwapped(genesA, genesB, t) ==
    LET keys == Dedupe([i \in 1..Len(genesA) |-> genesA[i].symbol]
                       \o [i \in 1..Len(genesB) |-> genesB[i].symbol], {})
        entry(symbol) ==
            IF symbol \in SymbolsOf(genesA) /\ symbol \in SymbolsOf(genesB)
            THEN LET a == FirstOf(genesA, symbol)
                     b == FirstOf(genesB, symbol)
                 IN  [symbol      |-> symbol,
                      value       |-> RAdd(b.value, RMul(RSub(a.value, b.value), t)),
                      description |-> IF a.description # "" THEN a.description
                                      ELSE b.description]
            ELSE IF symbol \in SymbolsOf(genesA)
            THEN FirstOf(genesA, symbol)
            ELSE FirstOf(genesB, symbol)
    IN  [i \in 1..Len(keys) |-> entry(keys[i])]

interpolateGenes(genesA, genesB, t) ==
    LET keys == Dedupe([i \in 1..Len(genesA) |-> genesA[i].symbol]
                       \o [i \in 1..Len(genesB) |-> genesB[i].symbol], {})
        entry(symbol) ==
            IF symbol \in SymbolsOf(genesA) /\ symbol \in SymbolsOf(genesB)
            THEN LET a == FirstOf(genesA, symbol)
                     b == FirstOf(genesB, symbol)
                 IN  [symbol      |-> symbol,
                      value       |-> RAdd(a.value, RMul(RSub(b.value, a.value), t)),
                      description |-> IF a.description # "" THEN a.description
                                      ELSE b.description]
            ELSE IF symbol \in SymbolsOf(genesA)
            THEN FirstOf(genesA, symbol)
            ELSE FirstOf(genesB, symbol)
    IN  [i \in 1..Len(keys) |-> entry(keys[i])]

(***************************************************************************)
(* utils/animation: generateAnimationFrames                                *)
(***************************************************************************)
RECURSIVE InsertByTimestamp(_, _)
InsertByTimestamp(sorted, tp) ==
    IF sorted = <<>> THEN <<tp>>
    ELSE IF tp.timestamp < Head(sorted).timestamp THEN <<tp>> \o sorted
    ELSE <<Head(sorted)>> \o InsertByTimestamp(Tail(sorted), tp)

RECURSIVE SortByTimestamp(_)
\* Array.prototype.sort((a, b) => a.timestamp - b.timestamp): stable, ascending
SortByTimestamp(tps) ==
    IF tps = <<>> THEN <<>>
    ELSE InsertByTimestamp(SortByTimestamp(SubSeq(tps, 1, Len(tps) - 1)), tps[Len(tps)])

\* Math.floor in place of Math.ceil
TotalFramesFloor(tl, f) ==
    LET q == RMul(tl.totalDuration, RInt(f)) IN q[1] \div q[2]

TotalFrames(tl, f) == Ceil(RMul(tl.totalDuration, RInt(f)))

\* the time moving on every other frame only
CurrentTimeEveryOther(tl, f, frameIndex) ==
    RMul(Rat(2 * (frameIndex \div 2), TotalFrames(tl, f)), tl.totalDuration)

CurrentTime(tl, f, frameIndex) ==
    RMul(Rat(frameIndex, TotalFrames(tl, f)), tl.totalDuration)

\* the inner search loop; positions are 1-based, so the code's index 0 is 1
FindSegment(timePoints, currentTime) ==
    LET hits == {i \in 1..(Len(timePoints) - 1) :
                    /\ RLe(RInt(timePoints[i].timestamp), currentTime)
                    /\ RLe(currentTime, RInt(timePoints[i + 1].timestamp))}
    IN  IF hits = {} THEN 1
        ELSE CHOOSE i \in hits : \A j \in hits : i <= j

\* the frame without a next TimePoint given the progress 0
FrameAtTerminalZero(timePoints, tl, f, frameIndex) ==
    LET currentTime == CurrentTime(tl, f, frameIndex)
        idx == FindSegment(timePoints, currentTime)
        currentTimePoint == timePoints[idx]
    IN  IF idx + 1 > Len(timePoints)
        THEN [timePoint        |-> currentTimePoint,
              progress         |-> RInt(0),
              interpolatedGenes |-> currentTimePoint.genes]
        ELSE LET nextTimePoint == timePoints[idx + 1]
                 segmentDuration == nextTimePoint.timestamp - currentTimePoint.timestamp
                 segmentProgress ==
                     IF segmentDuration > 0
                     THEN RDiv(RSub(currentTime, RInt(currentTimePoint.timestamp)),
                               RInt(segmentDuration))
                     ELSE RInt(0)
             IN  [timePoint        |-> currentTimePoint,
                  progress         |-> segmentProgress,
                  interpolatedGenes |->
                      interpolateGenes(currentTimePoint.genes, nextTimePoint.genes,
                                       segmentProgress)]

\* one iteration of the frame loop; timePoints is not empty
FrameAt(timePoints, tl, f, frameIndex) ==
    LET currentTime == CurrentTime(tl, f, frameIndex)
        idx == FindSegment(timePoints, currentTime)
        currentTimePoint == timePoints[idx]
    IN  IF idx + 1 > Len(timePoints)
        THEN [timePoint        |-> currentTimePoint,
              progress         |-> RInt(1),
              interpolatedGenes |-> currentTimePoint.genes]
        ELSE LET nextTimePoint == timePoints[idx + 1]
                 segmentDuration == nextTimePoint.timestamp - currentTimePoint.timestamp
                 segmentProgress ==
                     IF segmentDuration > 0
                     THEN RDiv(RSub(currentTime, RInt(currentTimePoint.timestamp)),
                               RInt(segmentDuration))
                     ELSE RInt(0)
             IN  [timePoint        |-> currentTimePoint,
                  progress         |-> segmentProgress,
                  interpolatedGenes |->
                      interpolateGenes(currentTimePoint.genes, nextTimePoint.genes,
                                       segmentProgress)]

\* the call as a whole: the frames returned, the caller's timePoints array as
\* the in-place sort leaves it, and whether the call threw (reading .genes of
\* timePoints[0] === undefined in the first iteration)
generateAnimationFrames(tl, f) ==
    LET totalFrames == TotalFrames(tl, f)
        timePoints  == SortByTimestamp(tl.timePoints)
    IN  IF totalFrames > 0 /\ timePoints = <<>>
        THEN [threw |-> TRUE, frames |-> <<>>, timePoints |-> timePoints]
        ELSE [threw |-> FALSE,
              frames |-> [k \in 1..(IF totalFrames > 0 THEN totalFrames ELSE 0) |->
                             FrameAt(timePoints, tl, f, k - 1)],
              timePoints |-> timePoints]

(***************************************************************************)
(* components/art/BioParticleSystem: the force field                       *)
(*                                                                         *)
(* Lengths and velocities are integers in micro-pixels (U per pixel);      *)
(* normalized values are integers in thousandths.  Products are staged so  *)
(* that every intermediate stays within 32 bits; divisions truncate.       *)
(***************************************************************************)
U == 1000 * 1000

GRAVITY_STRENGTH   == 800      \* 0.0008 px, in micro-pixels
REPULSION_STRENGTH == 2000     \* 0.002 px, in micro-pixels
DAMPING            == 95       \* 0.95, in hundredths
MIN_DISTANCE       == 60       \* px
MAX_DISTANCE       == 200      \* px
Bounce             == 8        \* v *= -0.8, in tenths
Margin             == 40       \* px
MinParticleRadius  == 8        \* px
ParticleRadiusSpan == 17       \* px
MaxParticleRadius  == 25       \* px
MinDistribution    == 80       \* px
SeparationSlack    == 10       \* px
HitSlack           == 10       \* px
CanvasWidth        == 600      \* px, the canvas before the container is measured
CanvasHeight       == 400      \* px

Max(a, b) == IF a >= b THEN a ELSE b
Min(a, b) == IF a <= b THEN a ELSE b

\* a / b truncated toward zero, b > 0
TDiv(a, b) == IF a >= 0 THEN a \div b ELSE -((-a) \div b)

RECURSIVE SqrtIter(_, _)
SqrtIter(n, x) ==
    LET y == (x + n \div x) \div 2
    IN  IF y >= x THEN x ELSE SqrtIter(n, y)

\* floor(sqrt(n)), n >= 0
ISqrt(n) == IF n < 2 THEN n ELSE SqrtIter(n, n)

RECURSIVE ScaleFor(_, _)
\* the least power of ten sc with m / sc <= 30000, so that squares fit
ScaleFor(m, sc) == IF m \div sc <= 30000 THEN sc ELSE ScaleFor(m, sc * 10)

\* Math.sqrt(dx*dx + dy*dy) with the direction (cos, sin) of atan2(dy, dx):
\* [d: the length in micro-pixels, ux/un and uy/un: the direction]
Polar(dx, dy) ==
    IF dx = 0 /\ dy = 0
    THEN [d |-> 0, ux |-> 1, uy |-> 0, un |-> 1]        \* atan2(0, 0) = 0
    ELSE LET sc == ScaleFor(Max(Abs(dx), Abs(dy)), 1)
             sx == TDiv(dx, sc)
             sy == TDiv(dy, sc)
             n  == ISqrt(sx * sx + sy * sy)
         IN  [d |-> n * sc, ux |-> sx, uy |-> sy, un |-> n]

\* geneKnowledge.pathways
Pathways ==
    << {"TP53", "CDKN1A"}, {"TP53", "BRCA1"}, {"VEGFA", "HIF1A"},
       {"EGFR", "MTOR"}, {"MYC", "CDKN1A"} >>

areInSamePathway(gene1, gene2) ==
    \E k \in 1..Len(Pathways) : gene1 \in Pathways[k] /\ gene2 \in Pathways[k]

\* --- the particle init effect ------------------------------------------
PaletteGene(s, n, c) == [symbol |-> s, normalized |-> n, color |-> c]

SetMin(S) == CHOOSE x \in S : \A y \in S : x <= y
SetMax(S) == CHOOSE x \in S : \A y \in S : x >= y

\* the whole gene object compared in place of its symbol
SameGenesInOrder(ps, gs) ==
    /\ Len(ps) = Len(gs)
    /\ \A i \in 1..Len(ps) : ps[i].gene = gs[i]

\* existingParticles.length === genes.length && every symbol matches by index
SameSymbolsInOrder(ps, gs) ==
    /\ Len(ps) = Len(gs)
    /\ \A i \in 1..Len(ps) : ps[i].gene.symbol = gs[i].symbol

\* the in-place branch putting each particle back to the smallest radius
RefreshParticlesResized(ps, gs) ==
    [i \in 1..Len(ps) |->
        [ps[i] EXCEPT !.gene = gs[i], !.color = gs[i].color,
                      !.normalized = gs[i].normalized,
                      !.radius = MinParticleRadius * U]]

\* the in-place branch: only gene, color and normalized are replaced
RefreshParticles(ps, gs) ==
    [i \in 1..Len(ps) |->
        [ps[i] EXCEPT !.gene = gs[i], !.color = gs[i].color,
                      !.normalized = gs[i].normalized]]

\* Math.cos / Math.sin of (k / n) * 2 * PI, in thousandths
CosSin(k, n) ==
    CASE n = 1 -> <<1000, 0>>
      [] n = 2 -> <<<<1000, 0>>, <<-1000, 0>>>>[k + 1]
      [] n = 3 -> <<<<1000, 0>>, <<-500, 866>>, <<-500, -866>>>>[k + 1]
      [] n = 4 -> <<<<1000, 0>>, <<0, 1000>>, <<-1000, 0>>, <<0, -1000>>>>[k + 1]

\* normRange = maxNorm - minNorm || 1  (in thousandths)
NormRange(gs) ==
    LET ns == {gs[i].normalized : i \in 1..Len(gs)}
        r  == SetMax(ns) - SetMin(ns)
    IN  IF r = 0 THEN 1000 ELSE r

\* normRange > 0 ? (gene.normalized - minNorm) / normRange : 0.5  (in thousandths)
NormalizedRatio(gs, i) ==
    LET ns == {gs[j].normalized : j \in 1..Len(gs)}
    IN  IF NormRange(gs) > 0
        THEN TDiv(1000 * (gs[i].normalized - SetMin(ns)), NormRange(gs))
        ELSE 500

\* the radius taken from the normalized value itself, not from its ratio
ParticleRadiusUnscaled(gs, i) ==
    Max(MinParticleRadius * U,
        MinParticleRadius * U + gs[i].normalized * ParticleRadiusSpan * 1000)

\* Math.max(8, 8 + normalizedRatio * 17)
ParticleRadius(gs, i) ==
    Max(MinParticleRadius * U,
        MinParticleRadius * U + NormalizedRatio(gs, i) * ParticleRadiusSpan * 1000)

DistributionRadius ==
    LET availableWidth  == CanvasWidth - Margin * 2 - MaxParticleRadius * 2
        availableHeight == CanvasHeight - Margin * 2 - MaxParticleRadius * 2
    IN  Max(MinDistribution * 1000, Min(availableWidth, availableHeight) * 500)  \* milli-px

\* the rebuild branch; vel[i] is the pair drawn by the two Math.random() calls
RebuildParticles(gs, vel) ==
    [i \in 1..Len(gs) |->
        LET cs       == CosSin(i - 1, Len(gs))
            radius   == ParticleRadius(gs, i)
            initialX == (CanvasWidth \div 2) * U + cs[1] * DistributionRadius
            initialY == (CanvasHeight \div 2) * U + cs[2] * DistributionRadius
            minX     == Margin * U + radius
            maxX     == CanvasWidth * U - Margin * U - radius
            minY     == Margin * U + radius
            maxY     == CanvasHeight * U - Margin * U - radius
        IN  [gene       |-> gs[i],
             x          |-> Max(minX, Min(maxX, initialX)),
             y          |-> Max(minY, Min(maxY, initialY)),
             vx         |-> vel[i][1],
             vy         |-> vel[i][2],
             radius     |-> radius,
             color      |-> gs[i].color,
             normalized |-> gs[i].normalized]]

\* --- animate(): one simulation tick ------------------------------------
\* the bounce without the clamp: the velocity is reflected, the position kept
ContainUnclamped(p) ==
    LET minX == Margin * U + p.radius
        maxX == CanvasWidth * U - Margin * U - p.radius
        minY == Margin * U + p.radius
        maxY == CanvasHeight * U - Margin * U - p.radius
        px == IF p.x < minX \/ p.x > maxX
              THEN [p EXCEPT !.vx = TDiv(-Bounce * p.vx, 10)] ELSE p
    IN  IF px.y < minY \/ px.y > maxY
        THEN [px EXCEPT !.vy = TDiv(-Bounce * px.vy, 10)] ELSE px

\* boundary bounce of one particle
Contain(p) ==
    LET minX == Margin * U + p.radius
        maxX == CanvasWidth * U - Margin * U - p.radius
        minY == Margin * U + p.radius
        maxY == CanvasHeight * U - Margin * U - p.radius
        px == IF p.x < minX \/ p.x > maxX
              THEN [p EXCEPT !.vx = TDiv(-Bounce * p.vx, 10),
                             !.x = Max(minX, Min(maxX, p.x))]
              ELSE p
    IN  IF px.y < minY \/ px.y > maxY
        THEN [px EXCEPT !.vy = TDiv(-Bounce * px.vy, 10),
                        !.y = Max(minY, Min(maxY, px.y))]
        ELSE px

\* distance || 1
PairDistance(pol) == IF pol.d = 0 THEN U ELSE pol.d

\* REPULSION_STRENGTH * (1 / (distance / 30 + 0.1)) * (1 - distance / MIN_DISTANCE)
RepulsionForce(distance) ==
    LET dm == distance \div 1000                                   \* milli-px
        a  == (REPULSION_STRENGTH * 30000) \div (dm + 3000)
    IN  TDiv(a * (MIN_DISTANCE * 1000 - dm), MIN_DISTANCE * 1000)

\* GRAVITY_STRENGTH / (distance / 100 + 0.1)
GravityForce(distance) ==
    LET dm == distance \div 1000
    IN  (GRAVITY_STRENGTH * 100000) \div (dm + 10000)

RepulsionApplies(distance, minSeparation) ==
    distance < MIN_DISTANCE * U \/ distance < minSeparation

\* the attraction without its upper distance limit
AttractionAppliesUnbounded(p1, p2, distance, minSeparation) ==
    /\ areInSamePathway(p1.gene.symbol, p2.gene.symbol)
    /\ distance > minSeparation

\* areInSamePathway(...) && distance > minSeparation && distance < MAX_DISTANCE
AttractionApplies(p1, p2, distance, minSeparation) ==
    /\ areInSamePathway(p1.gene.symbol, p2.gene.symbol)
    /\ distance > minSeparation
    /\ distance < MAX_DISTANCE * U

\* the body of the inner loop for the pair (i, j), i < j
Interact(st, i, j) ==
    LET p1  == st.ps[i]
        p2  == st.ps[j]
        pol == Polar(p2.x - p1.x, p2.y - p1.y)
        distance      == PairDistance(pol)
        minSeparation == p1.radius + p2.radius + SeparationSlack * U
        rep == RepulsionApplies(distance, minSeparation)
        att == AttractionApplies(p1, p2, distance, minSeparation)
        rf  == IF rep THEN RepulsionForce(distance) ELSE 0
        gf  == IF att THEN GravityForce(distance) ELSE 0
        fx  == TDiv((gf - rf) * pol.ux, pol.un)     \* what p1.vx gains, p2.vx loses
        fy  == TDiv((gf - rf) * pol.uy, pol.un)
    IN  [ps |-> [st.ps EXCEPT ![i] = [p1 EXCEPT !.vx = p1.vx + fx, !.vy = p1.vy + fy],
                              ![j] = [p2 EXCEPT !.vx = p2.vx - fx, !.vy = p2.vy - fy]],
         log |-> [repelled  |-> IF rep THEN st.log.repelled \cup {<<i, j>>}
                                ELSE st.log.repelled,
                  attracted |-> IF att THEN st.log.attracted \cup {<<i, j>>}
                                ELSE st.log.attracted,
                  links     |-> IF att THEN st.log.links \cup {<<i, j>>}
                                ELSE st.log.links]]

RECURSIVE InnerLoop(_, _, _)
InnerLoop(st, i, j) ==
    IF j > Len(st.ps) THEN st ELSE InnerLoop(Interact(st, i, j), i, j + 1)

\* the integration without the damping
IntegrateUndamped(p) ==
    [p EXCEPT !.x = p.x + p.vx, !.y = p.y + p.vy]

\* p.x += p.vx; p.y += p.vy; p.vx *= DAMPING; p.vy *= DAMPING
Integrate(p) ==
    [p EXCEPT !.x = p.x + p.vx, !.y = p.y + p.vy,
              !.vx = TDiv(p.vx * DAMPING, 100), !.vy = TDiv(p.vy * DAMPING, 100)]

RECURSIVE OuterLoop(_, _)
OuterLoop(st, i) ==
    IF i > Len(st.ps) THEN st
    ELSE LET contained == [st EXCEPT !.ps[i] = Contain(st.ps[i])]
             forced    == InnerLoop(contained, i, i + 1)
         IN  OuterLoop([forced EXCEPT !.ps[i] = Integrate(forced.ps[i])], i + 1)

NoTickLog == [repelled |-> {}, attracted |-> {}, links |-> {}]

\* animate(): [ps: the particles after the tick, log: what was applied and drawn]
Animate(ps) == OuterLoop([ps |-> ps, log |-> NoTickLog], 1)

\* --- handleClick --------------------------------------------------------
\* useState<GeneExpression | null>(null)
NoGene == [symbol |-> "", normalized |-> 0, color |-> ""]

\* Math.sqrt(dx * dx + dy * dy) < p.radius + 10
IsHit(p, x, y) == Polar(p.x - x, p.y - y).d < p.radius + HitSlack * U

\* the search returning the last particle that qualifies
HitTestLast(ps, x, y) ==
    IF \E i \in 1..Len(ps) : IsHit(ps[i], x, y)
    THEN CHOOSE i \in 1..Len(ps) :
             /\ IsHit(ps[i], x, y)
             /\ \A k \in (i + 1)..Len(ps) : ~IsHit(ps[k], x, y)
    ELSE 0

\* particlesRef.current.find(...): the index of the particle found, 0 for undefined
HitTest(ps, x, y) ==
    IF \E i \in 1..Len(ps) : IsHit(ps[i], x, y)
    THEN CHOOSE i \in 1..Len(ps) :
             /\ IsHit(ps[i], x, y)
             /\ \A k \in 1..(i - 1) : ~IsHit(ps[k], x, y)
    ELSE 0

\* setSelectedGene(clickedParticle.gene) or setSelectedGene(null)
ClickedGene(ps, x, y) ==
    IF HitTest(ps, x, y) = 0 THEN NoGene ELSE ps[HitTest(ps, x, y)].gene

(***************************************************************************)
(* utils/math                                                              *)
(* Values, means and z-scores are integers in thousandths.                 *)
(***************************************************************************)
RECURSIVE SumSeq(_)
SumSeq(q) == IF q = <<>> THEN 0 ELSE Head(q) + SumSeq(Tail(q))

clamp(value, lo, hi) == Min(Max(value, lo), hi)

\* the statistics with the standard deviation as Math.sqrt gives it
computeStatsNoFallback(values) ==
    IF values = <<>>
    THEN [mean |-> 0, std |-> 1000, min |-> 0, max |-> 0]
    ELSE LET mean == TDiv(SumSeq(values), Len(values))
             variance ==
                 TDiv(SumSeq([i \in 1..Len(values) |->
                                 (values[i] - mean) * (values[i] - mean)]),
                      Max(Len(values) - 1, 1))
         IN  [mean |-> mean,
              std  |-> ISqrt(variance),
              min  |-> SetMin({values[i] : i \in 1..Len(values)}),
              max  |-> SetMax({values[i] : i \in 1..Len(values)})]

computeStats(values) ==
    IF values = <<>>
    THEN [mean |-> 0, std |-> 1000, min |-> 0, max |-> 0]
    ELSE LET mean == TDiv(SumSeq(values), Len(values))
             variance ==      \* in millionths
                 TDiv(SumSeq([i \in 1..Len(values) |->
                                 (values[i] - mean) * (values[i] - mean)]),
                      Max(Len(values) - 1, 1))
             sd == ISqrt(variance)
         IN  [mean |-> mean,
              std  |-> IF sd = 0 THEN 1000 ELSE sd,        \* Math.sqrt(variance) || 1
              min  |-> SetMin({values[i] : i \in 1..Len(values)}),
              max  |-> SetMax({values[i] : i \in 1..Len(values)})]

toZScore(value, mean, std) == TDiv((value - mean) * 1000, std)

\* a gene value (exact rational) in thousandths
ToMilli(q) == TDiv(q[1] * 1000, q[2])

\* utils/color: the colour is a function of the clamped value and the palette
mapValueToColor(normalizedValue, m) ==
    [palette |-> m, level |-> clamp(normalizedValue, -3000, 3000)]

(***************************************************************************)
(* components/animation/TimelineAnimator: the animation driver             *)
(* Positions and radii are integers in milli-pixels.                       *)
(***************************************************************************)
ANIMATION_FPS   == 30
TrailLength     == 8
TransitionSpeed == 15      \* 0.15, in hundredths
AnimMinRadius   == 6       \* px
AnimMaxRadius   == 25      \* px
AnimCanvasWidth == 800     \* px
AnimCanvasHeight == 600    \* px
PathwayPull     == 2       \* 0.02, in hundredths

\* calculateAnimationStats(timeline).uniqueGenes: a Set's insertion order
RECURSIVE AllSymbols(_)
AllSymbols(tps) ==
    IF tps = <<>> THEN <<>>
    ELSE [i \in 1..Len(Head(tps).genes) |-> Head(tps).genes[i].symbol]
         \o AllSymbols(Tail(tps))

UniqueGenes(tl) == Dedupe(AllSymbols(tl.timePoints), {})

\* minRadius + ((normalized + 3) / 6) * (maxRadius - minRadius), in milli-px
RadiusFor(normalized) ==
    AnimMinRadius * 1000 + TDiv((normalized + 3000) * (AnimMaxRadius - AnimMinRadius), 6)

\* initializeParticles, for a timeline with at least one TimePoint
initializeParticles(tl, m) ==
    LET uniqueGenes    == UniqueGenes(tl)
        firstTimePoint == tl.timePoints[1]
        distribution   == (Min(AnimCanvasWidth, AnimCanvasHeight) * 3) \div 10     \* px
        allValues == [i \in 1..Len(firstTimePoint.genes) |->
                         ToMilli(firstTimePoint.genes[i].value)]
        geneStats == computeStats(allValues)
    IN  [k \in 1..Len(uniqueGenes) |->
            LET symbol == uniqueGenes[k]
                value  == IF symbol \in SymbolsOf(firstTimePoint.genes)
                          THEN FirstOf(firstTimePoint.genes, symbol).value
                          ELSE RInt(0)                      \* gene?.value || 0
                normalized == toZScore(ToMilli(value), geneStats.mean, geneStats.std)
                cs == CosSin(k - 1, Len(uniqueGenes))
                x  == (AnimCanvasWidth \div 2) * 1000 + cs[1] * distribution
                y  == (AnimCanvasHeight \div 2) * 1000 + cs[2] * distribution
            IN  [symbol       |-> symbol,
                 x            |-> x,
                 y            |-> y,
                 targetX      |-> x,
                 targetY      |-> y,
                 vx           |-> 0,
                 vy           |-> 0,
                 radius       |-> Max(AnimMinRadius * 1000, RadiusFor(normalized)),
                 targetRadius |-> Max(AnimMinRadius * 1000, RadiusFor(normalized)),
                 color        |-> mapValueToColor(normalized, m),
                 targetColor  |-> mapValueToColor(normalized, m),
                 value        |-> value,
                 normalized   |-> normalized,
                 trail        |-> <<>>]]

\* getGenePathways(symbol)
getGenePathways(symbol) == {k \in 1..Len(Pathways) : symbol \in Pathways[k]}

\* the trail without the pop
PushTrailUncapped(trail, x, y) ==
    LET pushed == <<[x |-> x, y |-> y, alpha |-> 1000]>> \o trail
    IN  [i \in 1..Len(pushed) |->
            [pushed[i] EXCEPT !.alpha = 1000 - TDiv((i - 1) * 1000, TrailLength)]]

\* the trail with the new entry put last and the first one dropped past the cap
PushTrailOldestFirst(trail, x, y) ==
    LET pushed == trail \o <<[x |-> x, y |-> y, alpha |-> 1000]>>
        kept   == IF Len(pushed) > TrailLength THEN Tail(pushed) ELSE pushed
    IN  [i \in 1..Len(kept) |->
            [kept[i] EXCEPT !.alpha = 1000 - TDiv((i - 1) * 1000, TrailLength)]]

\* trail.unshift(head); pop past trailLength; alpha = 1 - index / trailLength
PushTrail(trail, x, y) ==
    LET pushed == <<[x |-> x, y |-> y, alpha |-> 1000]>> \o trail
        kept   == IF Len(pushed) > TrailLength
                  THEN SubSeq(pushed, 1, Len(pushed) - 1) ELSE pushed
    IN  [i \in 1..Len(kept) |->
            [kept[i] EXCEPT !.alpha = 1000 - TDiv((i - 1) * 1000, TrailLength)]]

\* the body of particlesRef.current.forEach for the particle at position i;
\* ps already holds what the earlier iterations wrote
UpdateOne(ps, i, frameGenes, geneStats, m) ==
    LET particle == ps[i]
    IN  IF particle.symbol \notin SymbolsOf(frameGenes) THEN ps
        ELSE
        LET gene       == FirstOf(frameGenes, particle.symbol)
            normalized == toZScore(ToMilli(gene.value), geneStats.mean, geneStats.std)
            pathways   == getGenePathways(particle.symbol)
            related    == {j \in 1..Len(ps) :
                              /\ ps[j].symbol # particle.symbol
                              /\ \E k \in pathways : ps[j].symbol \in Pathways[k]}
            relSeq     == [n \in 1..Cardinality(related) |->
                              CHOOSE j \in related :
                                  Cardinality({h \in related : h < j}) = n - 1]
            avgX == TDiv(SumSeq([n \in 1..Len(relSeq) |-> ps[relSeq[n]].x]), Len(relSeq))
            avgY == TDiv(SumSeq([n \in 1..Len(relSeq) |-> ps[relSeq[n]].y]), Len(relSeq))
            targetX == IF related # {}
                       THEN particle.targetX + TDiv((avgX - particle.x) * PathwayPull, 100)
                       ELSE particle.targetX
            targetY == IF related # {}
                       THEN particle.targetY + TDiv((avgY - particle.y) * PathwayPull, 100)
                       ELSE particle.targetY
            targetRadius == Max(AnimMinRadius * 1000, RadiusFor(normalized))
            x == particle.x + TDiv((targetX - particle.x) * TransitionSpeed, 100)
            y == particle.y + TDiv((targetY - particle.y) * TransitionSpeed, 100)
            radius == particle.radius
                      + TDiv((targetRadius - particle.radius) * TransitionSpeed, 100)
        IN  [ps EXCEPT ![i] =
                [symbol       |-> particle.symbol,
                 x            |-> x,
                 y            |-> y,
                 targetX      |-> targetX,
                 targetY      |-> targetY,
                 vx           |-> particle.vx,
                 vy           |-> particle.vy,
                 radius       |-> radius,
                 targetRadius |-> targetRadius,
                 color        |-> mapValueToColor(normalized, m),
                 targetColor  |-> mapValueToColor(normalized, m),
                 value        |-> gene.value,
                 normalized   |-> normalized,
                 trail        |-> PushTrail(particle.trail, x, y)]]

RECURSIVE UpdateFrom(_, _, _, _, _)
UpdateFrom(ps, i, frameGenes, geneStats, m) ==
    IF i > Len(ps) THEN ps
    ELSE UpdateFrom(UpdateOne(ps, i, frameGenes, geneStats, m), i + 1,
                    frameGenes, geneStats, m)

\* updateParticles(frame) resetting the particles the frame does not name
updateParticlesResetting(ps, frame, m) ==
    LET allValues == [i \in 1..Len(frame.interpolatedGenes) |->
                         ToMilli(frame.interpolatedGenes[i].value)]
        r == UpdateFrom(ps, 1, frame.interpolatedGenes, computeStats(allValues), m)
    IN  [i \in 1..Len(r) |->
            IF r[i].symbol \in SymbolsOf(frame.interpolatedGenes) THEN r[i]
            ELSE [r[i] EXCEPT !.value = RInt(0), !.trail = <<>>]]

\* updateParticles(frame)
updateParticles(ps, frame, m) ==
    LET allValues == [i \in 1..Len(frame.interpolatedGenes) |->
                         ToMilli(frame.interpolatedGenes[i].value)]
    IN  UpdateFrom(ps, 1, frame.interpolatedGenes, computeStats(allValues), m)

\* framesRef.current[index] is defined
HasFrame(fs, index) == index >= 0 /\ index < Len(fs)

\* the end test with > in place of >=
NextAnimationStateLate(prev) ==
    LET nextFrame == prev.currentFrame + 1
    IN  IF nextFrame > prev.totalFrames
        THEN IF prev.loop
             THEN [prev EXCEPT !.currentFrame = 0]
             ELSE [prev EXCEPT !.currentFrame = prev.totalFrames - 1,
                               !.isPlaying = FALSE]
        ELSE [prev EXCEPT !.currentFrame = nextFrame]

\* the frame-index update of animate()
NextAnimationState(prev) ==
    LET nextFrame == prev.currentFrame + 1
    IN  IF nextFrame >= prev.totalFrames
        THEN IF prev.loop
             THEN [prev EXCEPT !.currentFrame = 0]
             ELSE [prev EXCEPT !.currentFrame = prev.totalFrames - 1,
                               !.isPlaying = FALSE]
        ELSE [prev EXCEPT !.currentFrame = nextFrame]

\* the "initial render" effect, deps [currentFrame, updateParticles, render,
\* isPlaying]: [ps, n: how many times updateParticles ran]
InitialRenderEffect(ps, fs, st, m) ==
    IF ~st.isPlaying /\ Len(fs) > 0 /\ HasFrame(fs, st.currentFrame)
    THEN [ps |-> updateParticles(ps, fs[st.currentFrame + 1], m), n |-> 1]
    ELSE [ps |-> ps, n |-> 0]

\* the init effect, deps [initializeParticles] = [timeline, mode]
InitEffect(ps, tl, m) ==
    IF tl.timePoints = <<>> THEN ps ELSE initializeParticles(tl, m)

(***************************************************************************)
(* The variables of the components a specification leaves alone            *)
(***************************************************************************)
SamplerUnused ==
    /\ timeline = [timePoints |-> <<>>, totalDuration |-> <<0, 1>>]
    /\ fps = 1
    /\ frames = <<>>
    /\ samplerPc = "done"

ForceFieldUnused ==
    /\ genes = <<>>
    /\ particles = <<>>
    /\ ffPhase = "idle"
    /\ loopOn = FALSE
    /\ ticks = 0
    /\ tickLog = NoTickLog
    /\ selectedGene = NoGene

CallsUnused ==
    /\ callArgs = <<>>
    /\ callResult = <<>>

\* useState<TimelineData | null>(null) and useState<string | null>(null)
NoTimeline == [null |-> TRUE]
NoError == "null"

AppUnused ==
    /\ activeTimeline = NoTimeline
    /\ timelineSource = "sample1"
    /\ timelineError = NoError
    /\ appPc = "idle"

DriverUnused ==
    /\ mode = "aurora"
    /\ animParticles = <<>>
    /\ animationState = [isPlaying |-> FALSE, currentFrame |-> 0, totalFrames |-> 0,
                         fps |-> ANIMATION_FPS, loop |-> TRUE]
    /\ drvStatus = "mounting"
    /\ advances = 0

(***************************************************************************)
(* Inputs of the sampler                                                   *)
(***************************************************************************)
MaxTimePoints == 3

Timestamps == {0, 1, 3}

GeneLists ==
    { <<Gene("TP53", 0, "p53"), Gene("MYC", 4, "")>>,
      <<Gene("MYC", 8, "myc"), Gene("TP53", 10, "")>>,
      <<Gene("TP53", 6, "alt"), Gene("EGFR", 2, "egfr")>> }

Durations == {<<0, 1>>, <<3, 2>>, <<4, 1>>}

FpsValues == {1, 2}

TimePointAt(i, ts, gl) ==
    [id |-> i, label |-> i, timestamp |-> ts, genes |-> gl]

TimePointSeqs ==
    UNION { { [i \in 1..n |-> TimePointAt(i, ts[i], gl[i])] :
                ts \in [1..n -> Timestamps], gl \in [1..n -> GeneLists] } :
            n \in 0..MaxTimePoints }

Timelines ==
    { [timePoints |-> tps, totalDuration |-> d] : tps \in TimePointSeqs, d \in Durations }

(***************************************************************************)
(* The sampler as a state machine: a call on drawn inputs                  *)
(***************************************************************************)
\* a gene rising from 0 at t = 0 to 10 at t = 10, sampled over 10 seconds
RampTimeline ==
    [timePoints |-> <<TimePointAt(1, 0, <<Gene("X", 0, "")>>),
                      TimePointAt(2, 10, <<Gene("X", 10, "")>>)>>,
     totalDuration |-> <<10, 1>>]

SamplerInit ==
    /\ timeline \in Timelines \cup {RampTimeline}
    /\ fps \in FpsValues
    /\ frames = <<>>
    /\ samplerPc = "ready"
    /\ lastOp = "none"
    /\ ForceFieldUnused
    /\ DriverUnused
    /\ CallsUnused
    /\ AppUnused

Sample ==
    /\ samplerPc = "ready"
    /\ LET r == generateAnimationFrames(timeline, fps)
       IN  /\ timeline' = [timeline EXCEPT !.timePoints = r.timePoints]
           /\ frames' = r.frames
           /\ samplerPc' = IF r.threw THEN "threw" ELSE "done"
    /\ lastOp' = "sample"
    /\ UNCHANGED <<fps, ffVars, drvVars, callVars, appVars>>

SamplerNext == Sample

SamplerSpec == SamplerInit /\ [][SamplerNext]_vars

(***************************************************************************)
(* The force field as a state machine.  A change of the genes prop runs,   *)
(* in one commit, the cleanup of the animation effect, then the particle   *)
(* init effect, then the animation effect (which calls animate() at once). *)
(***************************************************************************)
MaxTicks == 3

RandomVelocities == {<<-750000, 300000>>, <<600000, 0>>}

GeneInputs ==
    { <<>>,
      <<PaletteGene("TP53", 1200, "c1")>>,
      <<PaletteGene("TP53", 1200, "c1"), PaletteGene("MYC", -800, "c2")>>,
      <<PaletteGene("TP53", -500, "c3"), PaletteGene("MYC", 900, "c1")>>,
      <<PaletteGene("MYC", -800, "c2"), PaletteGene("TP53", 1200, "c1")>>,
      <<PaletteGene("TP53", 700, "c1"), PaletteGene("CDKN1A", 1500, "c2"),
        PaletteGene("BRCA1", -900, "c3"), PaletteGene("MYC", 0, "c1")>> }

\* mount: the first render, before its effects have run
ForceFieldInit ==
    /\ genes \in GeneInputs
    /\ particles = <<>>
    /\ ffPhase = "init"
    /\ loopOn = FALSE
    /\ ticks = 0
    /\ tickLog = NoTickLog
    /\ selectedGene = NoGene
    /\ lastOp = "mount"
    /\ SamplerUnused
    /\ DriverUnused
    /\ CallsUnused
    /\ AppUnused

\* the parent renders with a new genes array; the cleanup of the animation
\* effect cancels the pending frame
SetGenes(gs) ==
    /\ ffPhase = "idle"
    /\ ticks < MaxTicks
    /\ genes' = gs
    /\ loopOn' = FALSE
    /\ ffPhase' = "init"
    /\ lastOp' = "setGenes"
    /\ UNCHANGED <<particles, ticks, tickLog, selectedGene, samplerVars, drvVars, callVars, appVars>>

\* useEffect(..., [genes]): the particle init effect
ParticleInitEffect ==
    /\ ffPhase = "init"
    /\ ffPhase' = "anim"
    /\ IF genes = <<>>
       THEN particles' = particles /\ lastOp' = "skip"
       ELSE IF SameSymbolsInOrder(particles, genes)
       THEN particles' = RefreshParticles(particles, genes) /\ lastOp' = "refresh"
       ELSE /\ \E vel \in [1..Len(genes) -> RandomVelocities] :
                  particles' = RebuildParticles(genes, vel)
            /\ lastOp' = "rebuild"
    /\ UNCHANGED <<genes, loopOn, ticks, tickLog, selectedGene, samplerVars, drvVars,
                   callVars, appVars>>

\* useEffect(..., [genes]): the animation effect, which starts the loop by
\* calling animate() unless there are no particles
AnimationEffect ==
    /\ ffPhase = "anim"
    /\ ffPhase' = "idle"
    /\ IF particles = <<>>
       THEN /\ loopOn' = FALSE
            /\ lastOp' = "noLoop"
            /\ UNCHANGED <<particles, ticks, tickLog>>
       ELSE /\ particles' = Animate(particles).ps
            /\ tickLog' = Animate(particles).log
            /\ ticks' = ticks + 1
            /\ loopOn' = TRUE
            /\ lastOp' = "startLoop"
    /\ UNCHANGED <<genes, selectedGene, samplerVars, drvVars, callVars, appVars>>

\* the requestAnimationFrame callback
Tick ==
    /\ ffPhase = "idle"
    /\ loopOn
    /\ ticks < MaxTicks
    /\ particles' = Animate(particles).ps
    /\ tickLog' = Animate(particles).log
    /\ ticks' = ticks + 1
    /\ lastOp' = "tick"
    /\ UNCHANGED <<genes, ffPhase, loopOn, selectedGene, samplerVars, drvVars, callVars, appVars>>

\* a click whose commit also restarts the animation effect
ClickCommitRestarting(sel) ==
    /\ selectedGene' = sel
    /\ ffPhase' = "anim"
    /\ UNCHANGED <<genes, particles, loopOn, ticks, tickLog>>

\* the commit of a click: the state is set and the effect on [selectedGene]
\* copies it to the ref; the effects on [genes] do not run
ClickCommit(sel) ==
    /\ selectedGene' = sel
    /\ UNCHANGED <<genes, particles, ffPhase, loopOn, ticks, tickLog>>

ClickPoints ==
    { <<435 * U, 200 * U>>, <<165 * U, 200 * U>>, <<300 * U, 335 * U>>,
      <<300 * U, 200 * U>> }

\* handleClick at canvas position (x, y)
Click(x, y) ==
    /\ ffPhase = "idle"
    /\ ClickCommit(ClickedGene(particles, x, y))
    /\ lastOp' = IF HitTest(particles, x, y) = 0 THEN "clickMiss" ELSE "clickHit"
    /\ UNCHANGED <<samplerVars, drvVars, callVars, appVars>>

ForceFieldNext ==
    \/ \E gs \in GeneInputs : SetGenes(gs)
    \/ ParticleInitEffect
    \/ AnimationEffect
    \/ Tick
    \/ \E pt \in ClickPoints : Click(pt[1], pt[2])

ForceFieldSpec == ForceFieldInit /\ [][ForceFieldNext]_vars


(***************************************************************************)
(* The driver as a state machine.  Each action is an event together with   *)
(* the effects React runs in the commit that the event causes, in the      *)
(* order the component declares them.  The frame callback is taken to run  *)
(* after that commit, so it sees the state of the latest render.           *)
(***************************************************************************)
MaxAdvances == 4

Modes == {"aurora", "ion"}

DriverTimelines ==
    { [timePoints |-> <<TimePointAt(1, 0, <<Gene("TP53", 0, "p53"), Gene("MYC", 4, ""),
                                            Gene("EGFR", 2, "egfr")>>),
                        TimePointAt(2, 1, <<Gene("MYC", 8, "myc"), Gene("TP53", 10, "")>>)>>,
       totalDuration |-> <<1, 10>>],
      [timePoints |-> <<TimePointAt(1, 3, <<Gene("TP53", 6, "alt"), Gene("CDKN1A", 2, "")>>),
                        TimePointAt(2, 0, <<Gene("CDKN1A", 5, ""), Gene("EGFR", 1, "")>>)>>,
       totalDuration |-> <<1, 15>>],
      [timePoints |-> <<>>, totalDuration |-> <<0, 1>>],
      [timePoints |-> <<>>, totalDuration |-> <<1, 10>>] }

\* the first render, before its effects have run
DriverInit ==
    /\ timeline \in DriverTimelines
    /\ mode \in Modes
    /\ frames = <<>>
    /\ animParticles = <<>>
    /\ animationState = [isPlaying |-> FALSE, currentFrame |-> 0, totalFrames |-> 0,
                         fps |-> ANIMATION_FPS, loop |-> TRUE]
    /\ drvStatus = "mounting"
    /\ advances = 0
    /\ lastOp = "none"
    /\ fps = ANIMATION_FPS
    /\ samplerPc = "done"
    /\ ForceFieldUnused
    /\ CallsUnused
    /\ AppUnused

\* the frame generation effect and the init effect for the timeline tl (the
\* commit of a mount or of a timeline change); an exception in an effect
\* leaves the rest of the commit undone and unmounts the tree
TimelineEffects(tl, st, ps, op, runInitialRender) ==
    LET r == generateAnimationFrames(tl, ANIMATION_FPS)
        sorted == [tl EXCEPT !.timePoints = r.timePoints]
    IN  /\ timeline' = sorted
        /\ lastOp' = op
        /\ IF r.threw
           THEN /\ drvStatus' = "crashed"
                /\ UNCHANGED <<frames, animParticles, animationState, advances>>
           ELSE LET st1 == [st EXCEPT !.totalFrames = Len(r.frames)]
                    ps1 == InitEffect(ps, sorted, mode)
                    e4  == IF runInitialRender
                           THEN InitialRenderEffect(ps1, r.frames, st1, mode)
                           ELSE [ps |-> ps1, n |-> 0]
                IN  /\ drvStatus' = "running"
                    /\ frames' = r.frames
                    /\ animationState' = st1
                    /\ animParticles' = e4.ps
                    /\ advances' = advances + e4.n

DrvMount ==
    /\ drvStatus = "mounting"
    /\ TimelineEffects(timeline, animationState, animParticles, "mount", TRUE)
    /\ UNCHANGED <<mode, fps, samplerPc, ffVars, callVars, appVars>>

\* the parent passes another timeline
SwitchTimeline(tl) ==
    /\ drvStatus = "running"
    /\ TimelineEffects(tl, animationState, animParticles, "switchTimeline", FALSE)
    /\ UNCHANGED <<mode, fps, samplerPc, ffVars, callVars, appVars>>

\* the parent passes another palette mode: initializeParticles and
\* updateParticles are new callbacks, so the init effect and the initial
\* render effect run again
SetMode(m) ==
    /\ drvStatus = "running"
    /\ m # mode
    /\ advances < MaxAdvances
    /\ mode' = m
    /\ LET ps1 == InitEffect(animParticles, timeline, m)
           e4  == InitialRenderEffect(ps1, frames, animationState, m)
       IN  /\ animParticles' = e4.ps
           /\ advances' = advances + e4.n
    /\ lastOp' = "setMode"
    /\ UNCHANGED <<timeline, frames, animationState, drvStatus, fps, samplerPc, ffVars, callVars, appVars>>

\* a change of animationState to st and the effects its render causes: the
\* initial render effect runs when currentFrame or isPlaying changed; ps are
\* the particles as the event left them after n0 calls of updateParticles
Commit(st, ps, n0, op) ==
    LET e4 == IF st.currentFrame # animationState.currentFrame
                 \/ st.isPlaying # animationState.isPlaying
              THEN InitialRenderEffect(ps, frames, st, mode)
              ELSE [ps |-> ps, n |-> 0]
    IN  /\ animationState' = st
        /\ animParticles' = e4.ps
        /\ advances' = advances + n0 + e4.n
        /\ lastOp' = op
        /\ UNCHANGED <<timeline, frames, mode, drvStatus, fps, samplerPc, ffVars, callVars, appVars>>

Play ==
    /\ drvStatus = "running"
    /\ ~animationState.isPlaying
    /\ Commit([animationState EXCEPT !.isPlaying = TRUE], animParticles, 0, "play")

\* a pause that also goes back to frame 0
PauseAndRewind ==
    Commit([animationState EXCEPT !.isPlaying = FALSE, !.currentFrame = 0],
           animParticles, 0, "pause")

PauseCommit ==
    Commit([animationState EXCEPT !.isPlaying = FALSE], animParticles, 0, "pause")

Pause ==
    /\ drvStatus = "running"
    /\ animationState.isPlaying
    /\ advances < MaxAdvances
    /\ PauseCommit

\* a reset that stops where the player is
ResetKeepsFrame ==
    Commit([animationState EXCEPT !.isPlaying = FALSE], animParticles, 0, "reset")

ResetCommit ==
    Commit([animationState EXCEPT !.currentFrame = 0, !.isPlaying = FALSE],
           animParticles, 0, "reset")

Reset ==
    /\ drvStatus = "running"
    /\ advances < MaxAdvances
    /\ ResetCommit

ToggleLoop ==
    /\ drvStatus = "running"
    /\ Commit([animationState EXCEPT !.loop = ~animationState.loop],
              animParticles, 0, "toggleLoop")

\* animate() past its isPlaying test
TickCommit ==
    IF HasFrame(frames, animationState.currentFrame)
    THEN Commit(NextAnimationState(animationState),
                updateParticles(animParticles,
                                frames[animationState.currentFrame + 1], mode),
                1, "tick")
    ELSE Commit(NextAnimationState(animationState), animParticles, 0, "tick")

\* animate(): the requestAnimationFrame callback while playing
DrvTick ==
    /\ drvStatus = "running"
    /\ animationState.isPlaying
    /\ advances < MaxAdvances
    /\ TickCommit

DriverNext ==
    \/ DrvMount
    \/ \E tl \in DriverTimelines : SwitchTimeline(tl)
    \/ \E m \in Modes : SetMode(m)
    \/ Play
    \/ Pause
    \/ Reset
    \/ ToggleLoop
    \/ DrvTick

DriverSpec == DriverInit /\ [][DriverNext]_vars

(***************************************************************************)
(* The driver in a long playback of one timeline in one mode: the player   *)
(* controls and the ticks, with room for more advances than a trail holds  *)
(***************************************************************************)
MaxPlayback == 9

PlaybackInit ==
    /\ DriverInit
    /\ timeline.timePoints # <<>>

LongPause ==
    /\ drvStatus = "running"
    /\ animationState.isPlaying
    /\ advances < MaxPlayback
    /\ PauseCommit

LongReset ==
    /\ drvStatus = "running"
    /\ advances < MaxPlayback
    /\ ResetCommit

LongTick ==
    /\ drvStatus = "running"
    /\ animationState.isPlaying
    /\ advances < MaxPlayback
    /\ TickCommit

PlaybackNext ==
    \/ DrvMount
    \/ Play
    \/ LongPause
    \/ LongReset
    \/ ToggleLoop
    \/ LongTick

PlaybackSpec == PlaybackInit /\ [][PlaybackNext]_vars


(***************************************************************************)
(* interpolateGenes called on drawn gene lists, which may name a symbol    *)
(* more than once, and a drawn t                                           *)
(***************************************************************************)
MaxGenes == 2

InterpGenes ==
    { Gene("TP53", 0, "p53"), Gene("TP53", 10, ""), Gene("MYC", 4, "myc"),
      Gene("EGFR", 2, "") }

InterpLists == UNION { [1..n -> InterpGenes] : n \in 0..MaxGenes }

InterpTs == { <<0, 1>>, <<1, 4>>, <<1, 1>>, <<3, 2>>, <<-1, 2>> }

InterpolateInit ==
    /\ callArgs \in [genesA : InterpLists, genesB : InterpLists, t : InterpTs]
    /\ callResult = <<>>
    /\ lastOp = "none"
    /\ SamplerUnused
    /\ ForceFieldUnused
    /\ DriverUnused
    /\ AppUnused

Interpolate ==
    /\ lastOp = "none"
    /\ callResult' = interpolateGenes(callArgs.genesA, callArgs.genesB, callArgs.t)
    /\ lastOp' = "interpolateGenes"
    /\ UNCHANGED <<callArgs, samplerVars, ffVars, drvVars, appVars>>

InterpolateNext == Interpolate

InterpolateSpec == InterpolateInit /\ [][InterpolateNext]_vars

(***************************************************************************)
(* One step of animate() on a drawn population of the force field: the     *)
(* first particle and the others are drawn from positions inside and just  *)
(* outside the boundary range, at rest or moving, near and far from each   *)
(* other, related by a pathway or not                                      *)
(***************************************************************************)
MaxPopulation == 3

FieldParticle(s, pos, vel, r) ==
    [gene       |-> PaletteGene(s, 0, "c1"),
     x          |-> pos[1],
     y          |-> pos[2],
     vx         |-> vel[1],
     vy         |-> vel[2],
     radius     |-> r * U,
     color      |-> "c1",
     normalized |-> 0]

FirstParticles ==
    { FieldParticle("TP53", c[1], vel, c[2]) :
        c \in { <<<<50 * U, 200 * U>>, MinParticleRadius>>,
                <<<<300 * U, 200 * U>>, MinParticleRadius>>,
                <<<<300 * U, 200 * U>>, MaxParticleRadius>>,
                <<<<47500000, 352400000>>, MinParticleRadius>> },
        vel \in { <<0, 0>>, <<-600000, 400000>> } }

OtherParticles ==
    { FieldParticle(s, <<x, 200 * U>>, vel, MinParticleRadius) :
        s \in {"CDKN1A", "MYC"},
        x \in {326 * U, 330 * U, 400 * U, 500 * U, 550 * U, 552500000},
        vel \in { <<0, 0>>, <<300000, 0>> } }

FieldPopulations ==
    UNION { { q \in [1..n -> FirstParticles \cup OtherParticles] :
                /\ q[1] \in FirstParticles
                /\ \A k \in 2..n : q[k] \in OtherParticles } : n \in 1..MaxPopulation }

AnimateInit ==
    /\ callArgs \in [ps : FieldPopulations]
    /\ callResult = <<>>
    /\ lastOp = "none"
    /\ SamplerUnused
    /\ ForceFieldUnused
    /\ DriverUnused
    /\ AppUnused

\* the boundary step of animate() on each particle
ContainCall ==
    /\ lastOp = "none"
    /\ callResult' = [i \in 1..Len(callArgs.ps) |-> Contain(callArgs.ps[i])]
    /\ lastOp' = "contain"
    /\ UNCHANGED <<callArgs, samplerVars, ffVars, drvVars, appVars>>

\* animate(): one whole tick
AnimateCall ==
    /\ lastOp = "none"
    /\ callResult' = Animate(callArgs.ps)
    /\ lastOp' = "animate"
    /\ UNCHANGED <<callArgs, samplerVars, ffVars, drvVars, appVars>>

AnimateNext == ContainCall \/ AnimateCall

AnimateSpec == AnimateInit /\ [][AnimateNext]_vars

(***************************************************************************)
(* App: which timeline plays.  The sample buttons, a successful upload     *)
(* (handleTimelineLoad, called by processTimeline after its awaits: its    *)
(* three state updates are committed together where React batches them     *)
(* and one by one where it does not) and a failed upload                   *)
(* (handleTimelineError)                                                   *)
(***************************************************************************)
\* data/sampleTimeline
sampleTimelineData == [title |-> "sample1"]
cancerProgressionTimeline == [title |-> "sample2"]

\* timelines as processTimeline builds them: sorted TimePoints, totalDuration 8
UploadedTimelines ==
    { [title |-> "a", totalDuration |-> RInt(8),
       timePoints |-> <<TimePointAt(1, 0, <<Gene("TP53", 1, "")>>),
                        TimePointAt(2, 6, <<Gene("TP53", 3, "")>>)>>],
      [title |-> "b", totalDuration |-> RInt(8),
       timePoints |-> <<TimePointAt(1, 0, <<Gene("MYC", 2, "")>>),
                        TimePointAt(2, 6, <<Gene("MYC", 2, "")>>),
                        TimePointAt(3, 12, <<Gene("MYC", 5, "")>>)>>],
      [title |-> "c", totalDuration |-> RInt(8),
       timePoints |-> <<TimePointAt(1, 0, <<>>), TimePointAt(2, 0, <<>>)>>] }

\* the messages of processTimeline's three validations and of a CSV that fails to parse
UploadErrors == {"noTitle", "fewerThanTwoTimePoints", "missingCsv", "parseError"}

\* currentTimeline = useMemo(..., [timelineSource, activeTimeline])
currentTimeline ==
    CASE timelineSource = "sample1" -> sampleTimelineData
      [] timelineSource = "sample2" -> cancerProgressionTimeline
      [] timelineSource = "custom"  -> activeTimeline
      [] OTHER -> sampleTimelineData

AppInit ==
    /\ activeTimeline = NoTimeline
    /\ timelineSource = "sample1"
    /\ timelineError = NoError
    /\ appPc = "idle"
    /\ lastOp = "mount"
    /\ SamplerUnused
    /\ ForceFieldUnused
    /\ DriverUnused
    /\ CallsUnused

\* one of the two sample buttons
SelectSample(src) ==
    /\ appPc = "idle"
    /\ timelineSource' = src
    /\ timelineError' = NoError
    /\ lastOp' = "selectSample"
    /\ UNCHANGED <<activeTimeline, appPc, samplerVars, ffVars, drvVars, callVars>>

\* handleTimelineLoad(tl), its three updates in one commit
TimelineLoadBatched(tl) ==
    /\ appPc = "idle"
    /\ activeTimeline' = tl
    /\ timelineSource' = "custom"
    /\ timelineError' = NoError
    /\ lastOp' = "timelineLoad"
    /\ UNCHANGED <<appPc, samplerVars, ffVars, drvVars, callVars>>

\* handleTimelineLoad(tl), update by update: setActiveTimeline(timeline)
TimelineLoadSetActive(tl) ==
    /\ appPc = "idle"
    /\ activeTimeline' = tl
    /\ appPc' = "setSource"
    /\ lastOp' = "setActiveTimeline"
    /\ UNCHANGED <<timelineSource, timelineError, samplerVars, ffVars, drvVars, callVars>>

\* setTimelineSource('custom')
TimelineLoadSetSource ==
    /\ appPc = "setSource"
    /\ timelineSource' = "custom"
    /\ appPc' = "setError"
    /\ lastOp' = "setTimelineSource"
    /\ UNCHANGED <<activeTimeline, timelineError, samplerVars, ffVars, drvVars, callVars>>

\* setTimelineError(null)
TimelineLoadSetError ==
    /\ appPc = "setError"
    /\ timelineError' = NoError
    /\ appPc' = "idle"
    /\ lastOp' = "timelineLoad"
    /\ UNCHANGED <<activeTimeline, timelineSource, samplerVars, ffVars, drvVars, callVars>>

\* an error handler that also goes back to the uploaded timeline
TimelineErrorToCustom(error) ==
    /\ timelineError' = error
    /\ timelineSource' = "custom"
    /\ UNCHANGED <<activeTimeline, appPc>>

\* handleTimelineError(error)
TimelineErrorCommit(error) ==
    /\ timelineError' = error
    /\ UNCHANGED <<activeTimeline, timelineSource, appPc>>

\* a failed upload: processTimeline calls onError
TimelineError(error) ==
    /\ appPc = "idle"
    /\ TimelineErrorCommit(error)
    /\ lastOp' = "timelineError"
    /\ UNCHANGED <<samplerVars, ffVars, drvVars, callVars>>

AppNext ==
    \/ \E src \in {"sample1", "sample2"} : SelectSample(src)
    \/ \E tl \in UploadedTimelines : TimelineLoadBatched(tl)
    \/ \E tl \in UploadedTimelines : TimelineLoadSetActive(tl)
    \/ TimelineLoadSetSource
    \/ TimelineLoadSetError
    \/ \E error \in UploadErrors : TimelineError(error)

AppSpec == AppInit /\ [][AppNext]_vars

(***************************************************************************)
(* computeStats called on a drawn list of values (in thousandths), and     *)
(* toZScore called on each value with the statistics returned; a division  *)
(* by a standard deviation of 0 gives a number that is not finite          *)
(***************************************************************************)
MaxValues == 3

StatValues == {0, 1, -1200, 2500, 40000}

StatLists == UNION { [1..n -> StatValues] : n \in 0..MaxValues }

StatsInit ==
    /\ callArgs \in [values : StatLists]
    /\ callResult = <<>>
    /\ lastOp = "none"
    /\ SamplerUnused
    /\ ForceFieldUnused
    /\ DriverUnused
    /\ AppUnused

StatsCall ==
    /\ lastOp = "none"
    /\ LET st == computeStats(callArgs.values)
       IN  callResult' =
               [stats |-> st,
                z |-> [i \in 1..Len(callArgs.values) |->
                          IF st.std = 0
                          THEN [finite |-> FALSE, value |-> 0]
                          ELSE [finite |-> TRUE,
                                value  |-> toZScore(callArgs.values[i], st.mean, st.std)]]]
    /\ lastOp' = "computeStats"
    /\ UNCHANGED <<callArgs, samplerVars, ffVars, drvVars, appVars>>

StatsNext == StatsCall

StatsSpec == StatsInit /\ [][StatsNext]_vars

(***************************************************************************)
(* handleClick's search on a drawn population and a drawn click point: on  *)
(* a particle, between two particles whose hit areas overlap, exactly      *)
(* radius + 10 from a centre, and away from every particle.  The search    *)
(* reads x, y and radius only, so the populations are drawn at rest.       *)
(***************************************************************************)
HitPopulations ==
    {q \in FieldPopulations : \A i \in 1..Len(q) : q[i].vx = 0 /\ q[i].vy = 0}

HitPoints ==
    { <<315 * U, 200 * U>>, <<343 * U, 200 * U>>, <<318 * U, 200 * U>>,
      <<100 * U, 100 * U>> }

HitTestInit ==
    /\ callArgs \in [ps : HitPopulations, pt : HitPoints]
    /\ callResult = <<>>
    /\ lastOp = "none"
    /\ SamplerUnused
    /\ ForceFieldUnused
    /\ DriverUnused
    /\ AppUnused

HitTestCall ==
    /\ lastOp = "none"
    /\ callResult' = [index |-> HitTest(callArgs.ps, callArgs.pt[1], callArgs.pt[2]),
                      gene  |-> ClickedGene(callArgs.ps, callArgs.pt[1], callArgs.pt[2])]
    /\ lastOp' = "hitTest"
    /\ UNCHANGED <<callArgs, samplerVars, ffVars, drvVars, appVars>>

HitTestNext == HitTestCall

HitTestSpec == HitTestInit /\ [][HitTestNext]_vars

(***************************************************************************)
(* updateParticles called on a population the driver has built (fresh, or  *)
(* advanced some times by the first frame of its timeline) and a drawn     *)
(* frame, which may leave out particles and may name genes no particle has *)
(***************************************************************************)
MaxFrameGenes == 2
MaxPreAdvances == 9

FrameGenes ==
    { Gene("TP53", 10, ""), Gene("MYC", 3, "myc"), Gene("BRCA1", 7, ""),
      Gene("EGFR", 5, "") }

FrameGeneLists == UNION { [1..n -> FrameGenes] : n \in 0..MaxFrameGenes }

\* a frame as generateAnimationFrames builds it from one TimePoint
FrameOf(gl) ==
    [timePoint |-> TimePointAt(1, 0, gl), progress |-> RInt(1), interpolatedGenes |-> gl]

RECURSIVE AdvanceTimes(_, _, _, _)
\* k calls of updateParticles(frame)
AdvanceTimes(ps, frame, m, k) ==
    IF k = 0 THEN ps ELSE AdvanceTimes(updateParticles(ps, frame, m), frame, m, k - 1)

\* a timeline whose first TimePoint has negative values close together and
\* lacks a gene of the second: that gene starts with the value 0, an outlier
OutlierTimeline ==
    [timePoints |-> <<TimePointAt(1, 0, <<Gene("MYC", -4, ""), Gene("TP53", -5, "")>>),
                      TimePointAt(2, 1, <<Gene("EGFR", 3, ""), Gene("MYC", 1, ""),
                                          Gene("TP53", 2, "")>>)>>,
     totalDuration |-> <<1, 10>>]

UpdatePopulations ==
    LET tls == {tl \in DriverTimelines : tl.timePoints # <<>>} \cup {OutlierTimeline}
    IN  {[ps |-> AdvanceTimes(initializeParticles(tl, m),
                              generateAnimationFrames(tl, ANIMATION_FPS).frames[1], m, k),
          mode |-> m] : tl \in tls, m \in Modes, k \in 0..MaxPreAdvances}

UpdateInit ==
    /\ \E pop \in UpdatePopulations, gl \in FrameGeneLists :
           callArgs = [ps |-> pop.ps, frame |-> FrameOf(gl), mode |-> pop.mode]
    /\ callResult = <<>>
    /\ lastOp = "none"
    /\ SamplerUnused
    /\ ForceFieldUnused
    /\ DriverUnused
    /\ AppUnused

UpdateCall ==
    /\ lastOp = "none"
    /\ callResult' = updateParticles(callArgs.ps, callArgs.frame, callArgs.mode)
    /\ lastOp' = "updateParticles"
    /\ UNCHANGED <<callArgs, samplerVars, ffVars, drvVars, appVars>>

UpdateNext == UpdateCall

UpdateSpec == UpdateInit /\ [][UpdateNext]_vars

(***************************************************************************)
(* Claims about the sampler (checked under SamplerSpec)                    *)
(***************************************************************************)
Returned == samplerPc = "done"

\* after the call timeline.timePoints is sorted, so its last element is a
\* TimePoint with the largest timestamp
LastTimePoint == timeline.timePoints[Len(timeline.timePoints)]

IsTerminalFrame(frame) ==
    /\ frame.timePoint = LastTimePoint
    /\ frame.progress = RInt(1)
    /\ frame.interpolatedGenes = LastTimePoint.genes

\* C1: for a timeline with at least one TimePoint and totalDuration*fps > 0,
\* the last frame returned has progress 1 and interpolatedGenes equal to the
\* raw genes of the TimePoint with the largest timestamp.
C1_LastFrameIsTerminal ==
    (Returned /\ Len(timeline.timePoints) >= 1 /\ Len(frames) > 0)
        => /\ frames[Len(frames)].progress = RInt(1)
           /\ frames[Len(frames)].interpolatedGenes = LastTimePoint.genes

\* C2: every frame whose currentTime is greater than the timestamp of the
\* last TimePoint is a terminal frame (last TimePoint, progress 1, raw genes).
C2_PastTheEndIsTerminal ==
    (Returned /\ Len(timeline.timePoints) >= 1)
        => \A k \in 1..Len(frames) :
              RLt(RInt(LastTimePoint.timestamp),
                  RMul(Rat(k - 1, Len(frames)), timeline.totalDuration))
                  => IsTerminalFrame(frames[k])

\* the position in the sorted timePoints of the TimePoint a frame references
PositionOf(frame) ==
    CHOOSE i \in 1..Len(timeline.timePoints) : timeline.timePoints[i] = frame.timePoint

ValueOf(gl, symbol) ==
    gl[CHOOSE i \in 1..Len(gl) :
          /\ gl[i].symbol = symbol
          /\ \A j \in 1..(i - 1) : gl[j].symbol # symbol].value

\* C3: in every frame, for every symbol present in both bracketing
\* TimePoints with values a and b, the interpolated value v has
\* min(a,b) <= v <= max(a,b).
C3_InterpolationBounds ==
    Returned =>
        \A k \in 1..Len(frames) :
            LET i == PositionOf(frames[k])
            IN  i < Len(timeline.timePoints) =>
                    LET genesA == timeline.timePoints[i].genes
                        genesB == timeline.timePoints[i + 1].genes
                    IN  \A s \in SymbolsOf(genesA) \cap SymbolsOf(genesB) :
                            LET a == ValueOf(genesA, s)
                                b == ValueOf(genesB, s)
                                v == ValueOf(frames[k].interpolatedGenes, s)
                            IN  RLe(RMin(a, b), v) /\ RLe(v, RMax(a, b))

\* C4: every frame produced has 0 <= progress <= 1.
C4_ProgressInUnitInterval ==
    Returned =>
        \A k \in 1..Len(frames) :
            RLe(RInt(0), frames[k].progress) /\ RLe(frames[k].progress, RInt(1))

\* C5: for a timeline with at least one TimePoint the call returns exactly
\* ceil(totalDuration * fps) frames: the least integer n with
\* totalDuration * fps <= n.
C5_FrameCount ==
    (samplerPc # "ready" /\ Len(timeline.timePoints) >= 1)
        => /\ Returned
           /\ RLe(RMul(timeline.totalDuration, RInt(fps)), RInt(Len(frames)))
           /\ RLt(RInt(Len(frames) - 1), RMul(timeline.totalDuration, RInt(fps)))

\* C5 witness: a call on a non-empty timeline whose totalDuration * fps = 3/2
\* is not an integer has returned 2 frames
C5_Witness ==
    /\ Returned
    /\ Len(timeline.timePoints) >= 2
    /\ timeline.totalDuration = <<3, 2>>
    /\ fps = 1
    /\ Len(frames) = 2

(***************************************************************************)
(* Claims about the force field (checked under ForceFieldSpec)             *)
(***************************************************************************)
SymbolSeq(ps) == [i \in 1..Len(ps) |-> ps[i].gene.symbol]
GeneSymbolSeq(gs) == [i \in 1..Len(gs) |-> gs[i].symbol]

SeqToSet(q) == {q[i] : i \in 1..Len(q)}

\* every particle that is still there after the step is where it was
PositionsKept(before, after) ==
    \A i \in 1..Len(before) : \A j \in 1..Len(after) :
        before[i].gene.symbol = after[j].gene.symbol
            => before[i].x = after[j].x /\ before[i].y = after[j].y

C7_EmptyListEmptiesPopulation ==
    (ffPhase = "idle" /\ genes = <<>>) => (particles = <<>> /\ ~loopOn)

CountOf(q, x) == Cardinality({i \in 1..Len(q) : q[i] = x})

\* C8: once the effects of an update have run, and after any ticks, the
\* multiset of particle symbols equals the multiset of symbols of the gene
\* list supplied last.
C8_SymbolsMatchGenes ==
    ffPhase = "idle" =>
        \A s \in SeqToSet(SymbolSeq(particles)) \cup SeqToSet(GeneSymbolSeq(genes)) :
            CountOf(SymbolSeq(particles), s) = CountOf(GeneSymbolSeq(genes), s)

(***************************************************************************)
(* Claims about the driver (checked under DriverSpec)                      *)
(***************************************************************************)
TrailCoords(trail) == [i \in 1..Len(trail) |-> <<trail[i].x, trail[i].y>>]

IsPrefix(a, b) == Len(a) <= Len(b) /\ \A i \in 1..Len(a) : a[i] = b[i]

\* the particle after a step is the particle before it, advanced k times:
\* its trail holds k new heads in front of the old entries
KeptInPlace(old, new) ==
    /\ new.symbol = old.symbol
    /\ \E k \in 0..Len(new.trail) :
          /\ Len(new.trail) = Min(Len(old.trail) + k, TrailLength)
          /\ IsPrefix(SubSeq(TrailCoords(new.trail), k + 1, Len(new.trail)),
                      TrailCoords(old.trail))
          /\ k = 0 => (new.x = old.x /\ new.y = old.y)

\* C9: the population is rebuilt only when the timeline changes: every other
\* event (mode change, play, pause, reset, loop toggle, frame advance) leaves
\* the existing particles, their positions and trails, in place.
\* On a timeline switch the population becomes one particle per distinct gene
\* symbol of the new timeline.
C9_RebuiltOnlyOnTimelineChange ==
    [][ /\ (drvStatus = "running" /\ lastOp' # "switchTimeline")
            => /\ Len(animParticles') = Len(animParticles)
               /\ \A i \in 1..Len(animParticles) :
                     KeptInPlace(animParticles[i], animParticles'[i])
        /\ (lastOp' = "switchTimeline" /\ drvStatus' = "running")
            => [i \in 1..Len(animParticles') |-> animParticles'[i].symbol]
                   = UniqueGenes(timeline') ]_vars

\* C10: a timeline with zero TimePoints is rejected when the driver is
\* constructed for it: the driver never runs on it.
C10_EmptyTimelineRejected ==
    timeline.timePoints = <<>> => drvStatus # "running"

\* C11: when a tick processes the last frame (currentFrame = totalFrames - 1)
\* the player stops there if loop is off (isPlaying becomes false) and wraps
\* to frame 0, still playing, if loop is on; a stopped player is advanced by
\* no tick.
C11_EndOfPlayback ==
    [][ /\ (/\ lastOp' = "tick"
            /\ animationState.currentFrame = animationState.totalFrames - 1)
           => IF animationState.loop
              THEN /\ animationState'.currentFrame = 0
                   /\ animationState'.isPlaying
              ELSE /\ animationState'.currentFrame = animationState.currentFrame
                   /\ ~animationState'.isPlaying
        /\ ~animationState.isPlaying => lastOp' # "tick" ]_vars

\* C11 witness: a tick on the last of several frames has stopped the player
C11_Witness ==
    /\ lastOp = "tick"
    /\ ~animationState.loop
    /\ ~animationState.isPlaying
    /\ animationState.totalFrames >= 2
    /\ animationState.currentFrame = animationState.totalFrames - 1

\* C12: after any sequence of frame advances every AnimatedParticle's trail
\* has at most trailLength (8) entries.
C12_TrailBound ==
    \A i \in 1..Len(animParticles) : Len(animParticles[i].trail) <= TrailLength

\* C12 witness: a population advanced more often than a trail has places,
\* every trail full
C12_Witness ==
    /\ advances > TrailLength
    /\ animParticles # <<>>
    /\ \A i \in 1..Len(animParticles) : Len(animParticles[i].trail) = TrailLength

(***************************************************************************)
(* Claims about interpolateGenes (checked under InterpolateSpec)           *)
(***************************************************************************)
Interpolated == lastOp = "interpolateGenes"

ArgSymbols == SymbolsOf(callArgs.genesA) \cup SymbolsOf(callArgs.genesB)

\* C13: interpolateGenes(A, B, t) holds exactly one entry per distinct symbol
\* of A and B: none dropped, none twice.
C13_UnionCompleteness ==
    Interpolated =>
        /\ Len(callResult) = Cardinality(ArgSymbols)
        /\ {callResult[i].symbol : i \in 1..Len(callResult)} = ArgSymbols
        /\ \A i, j \in 1..Len(callResult) :
              callResult[i].symbol = callResult[j].symbol => i = j

\* C13 witness: four genes in two lists that share a symbol, one of them
\* naming it twice, give two entries
C13_Witness ==
    /\ Interpolated
    /\ Len(callArgs.genesA) = 2
    /\ Len(callArgs.genesB) = 2
    /\ Cardinality(SymbolsOf(callArgs.genesA)) = 1
    /\ SymbolsOf(callArgs.genesA) \cap SymbolsOf(callArgs.genesB) # {}
    /\ Cardinality(ArgSymbols) = 2
    /\ Len(callResult) = 2

EntriesOf(gl, symbol) == {gl[i] : i \in {k \in 1..Len(gl) : gl[k].symbol = symbol}}

\* C14: a symbol of only one list is in the result as an entry of that list,
\* value and description unchanged whatever t is; a symbol of both lists has
\* the value a.value + (b.value - a.value) * t.
C14_PassThroughAndLerp ==
    Interpolated =>
        \A i \in 1..Len(callResult) :
            LET e  == callResult[i]
                as == EntriesOf(callArgs.genesA, e.symbol)
                bs == EntriesOf(callArgs.genesB, e.symbol)
            IN  /\ (as # {} /\ bs = {}) => e \in as
                /\ (as = {} /\ bs # {}) => e \in bs
                /\ (as # {} /\ bs # {}) =>
                      \E a \in as, b \in bs :
                          e.value = RAdd(a.value,
                                         RMul(RSub(b.value, a.value), callArgs.t))

\* C14 witness: t = 1/4, MYC only in B passed through, TP53 in both moved a
\* quarter of the way from 0 to 10
C14_Witness ==
    /\ Interpolated
    /\ callArgs.t = <<1, 4>>
    /\ callArgs.genesA = <<Gene("TP53", 0, "p53")>>
    /\ callArgs.genesB = <<Gene("MYC", 4, "myc"), Gene("TP53", 10, "")>>
    /\ callResult = << [symbol |-> "TP53", value |-> <<5, 2>>, description |-> "p53"],
                       Gene("MYC", 4, "myc") >>

(***************************************************************************)
(* More claims about the sampler (checked under SamplerSpec)               *)
(***************************************************************************)
\* the timeline with its TimePoints in the order p
Permuted(tl, p) ==
    [tl EXCEPT !.timePoints = [i \in 1..Len(tl.timePoints) |-> tl.timePoints[p[i]]]]

\* C15: generateAnimationFrames returns the same frames for every order of
\* timeline.timePoints, and along the frames the timestamp of the TimePoint
\* referenced never decreases.
C15_AscendingWhateverTheOrder ==
    Returned =>
        /\ \A p \in Permutations(1..Len(timeline.timePoints)) :
              generateAnimationFrames(Permuted(timeline, p), fps).frames = frames
        /\ \A k \in 1..(Len(frames) - 1) :
              frames[k].timePoint.timestamp <= frames[k + 1].timePoint.timestamp

\* C16: a call of generateAnimationFrames leaves the caller's timeline as it
\* was, the order of timeline.timePoints included.
C16_TimelineUnchanged ==
    [][ lastOp' = "sample" => timeline' = timeline ]_vars

\* C20: for a timeline of one TimePoint every frame refers to that TimePoint,
\* has progress 1 and has its raw genes.
C20_SingleTimePointIsStatic ==
    (Returned /\ Len(timeline.timePoints) = 1) =>
        \A k \in 1..Len(frames) :
            /\ frames[k].timePoint = timeline.timePoints[1]
            /\ frames[k].progress = RInt(1)
            /\ frames[k].interpolatedGenes = timeline.timePoints[1].genes

\* C20 witness: eight frames of one TimePoint whose timestamp lies after the
\* first frames' currentTime
C20_Witness ==
    /\ Returned
    /\ Len(timeline.timePoints) = 1
    /\ timeline.timePoints[1].timestamp = 3
    /\ Len(frames) = 8
    /\ frames[1].progress = RInt(1)

(***************************************************************************)
(* More claims about the force field (checked under ForceFieldSpec)        *)
(***************************************************************************)
\* C17: when the gene list received has the same symbols in the same order
\* as the population, the update replaces each particle's gene, colour and
\* normalized value and nothing else: x, y, vx, vy and radius stay.
C17_RefreshTouchesOnlyColourAndValue ==
    [][ (/\ ffPhase = "init"
         /\ particles # <<>>
         /\ GeneSymbolSeq(genes) = SymbolSeq(particles))
        => /\ Len(particles') = Len(particles)
           /\ \A i \in 1..Len(particles) :
                 /\ particles'[i].x = particles[i].x
                 /\ particles'[i].y = particles[i].y
                 /\ particles'[i].vx = particles[i].vx
                 /\ particles'[i].vy = particles[i].vy
                 /\ particles'[i].radius = particles[i].radius
                 /\ particles'[i].gene = genes[i]
                 /\ particles'[i].color = genes[i].color
                 /\ particles'[i].normalized = genes[i].normalized ]_vars

\* C17 witness: TP53, the largest value of the list it was built from and
\* the smallest of the list just received, still has the largest radius and
\* a velocity, with the new colour and value
C17_Witness ==
    /\ lastOp = "refresh"
    /\ ticks >= 1
    /\ Len(particles) = 2
    /\ particles[1].gene = PaletteGene("TP53", -500, "c3")
    /\ particles[1].normalized = -500
    /\ particles[1].color = "c3"
    /\ particles[1].radius = MaxParticleRadius * U
    /\ particles[1].vx # 0

(***************************************************************************)
(* Claims about the player (checked under DriverSpec)                      *)
(***************************************************************************)
\* C18: Reset, from any player state, leaves currentFrame = 0 and isPlaying
\* false, and loop, fps and totalFrames as they were.
C18_Reset ==
    [][ lastOp' = "reset"
        => /\ animationState'.currentFrame = 0
           /\ ~animationState'.isPlaying
           /\ animationState'.loop = animationState.loop
           /\ animationState'.fps = animationState.fps
           /\ animationState'.totalFrames = animationState.totalFrames ]_vars

\* the population after updateParticles has run on the frames at the indices
\* of path, in that order, since pop
RECURSIVE Advanced(_, _)
Advanced(pop, path) ==
    IF path = <<>> THEN pop
    ELSE Advanced(updateParticles(pop, frames[Head(path) + 1], mode), Tail(path))

\* C18 witness: of three frames, frame 0 was rendered at the mount and by a
\* tick, then frame 1, and now frame 0 again by the reset: the player had
\* left frame 0 when it was reset
C18_Witness ==
    /\ lastOp = "reset"
    /\ Len(frames) = 3
    /\ animationState.currentFrame = 0
    /\ ~animationState.isPlaying
    /\ advances = 4
    /\ animParticles = Advanced(initializeParticles(timeline, mode), <<0, 0, 1, 0>>)
    /\ animParticles # Advanced(initializeParticles(timeline, mode), <<0, 0, 0, 0>>)

\* the value the frame at index holds for a symbol
FrameValue(index, symbol) == FirstOf(frames[index + 1].interpolatedGenes, symbol).value

\* C19: Pause leaves currentFrame as it is and Play resumes at it; a tick
\* applies the frame at currentFrame and, before the last frame, moves
\* currentFrame on by exactly one.
C19_Resumable ==
    [][ /\ lastOp' = "pause"
           => /\ animationState'.currentFrame = animationState.currentFrame
              /\ ~animationState'.isPlaying
        /\ lastOp' = "play"
           => /\ animationState'.currentFrame = animationState.currentFrame
              /\ animationState'.isPlaying
        /\ (lastOp' = "tick" /\ HasFrame(frames, animationState.currentFrame))
           => \A i \in 1..Len(animParticles') :
                 animParticles'[i].symbol
                     \in SymbolsOf(frames[animationState.currentFrame + 1].interpolatedGenes)
                 => animParticles'[i].value
                        = FrameValue(animationState.currentFrame, animParticles'[i].symbol)
        /\ (/\ lastOp' = "tick"
            /\ animationState.currentFrame + 1 < animationState.totalFrames)
           => /\ animationState'.currentFrame = animationState.currentFrame + 1
              /\ animationState'.isPlaying ]_vars

\* C19 witness: of three frames, frame 0 was rendered at the mount and by a
\* tick, frame 1 by the pause and, after Play, by the next tick, which left
\* the player at frame 2
C19_Witness ==
    /\ lastOp = "tick"
    /\ animationState.isPlaying
    /\ animationState.currentFrame = 2
    /\ Len(frames) = 3
    /\ advances = 4
    /\ animParticles = Advanced(initializeParticles(timeline, mode), <<0, 0, 1, 1>>)
    /\ animParticles # Advanced(initializeParticles(timeline, mode), <<0, 0, 0, 1>>)

\* the value of gene X in the frame at a 0-based index
RampValue(index) == FirstOf(frames[index + 1].interpolatedGenes, "X").value

\* C21: for TimePoints at t = 0 (X = 0) and t = 10 (X = 10), totalDuration 10
\* and fps 1, there are 10 frames, X strictly increases from each frame to
\* the next, and X in frame 5 is strictly between 0 and 10.
C21_RampIsMonotone ==
    (Returned /\ timeline = RampTimeline /\ fps = 1) =>
        /\ Len(frames) = 10
        /\ \A k \in 0..8 : RLt(RampValue(k), RampValue(k + 1))
        /\ RLt(RInt(0), RampValue(5))
        /\ RLt(RampValue(5), RInt(10))

\* C21 witness: the ten frames of the ramp, X = 5 in frame 5
C21_Witness ==
    /\ Returned
    /\ timeline = RampTimeline
    /\ fps = 1
    /\ Len(frames) = 10
    /\ RampValue(5) = RInt(5)

(***************************************************************************)
(* C22: a click on the canvas                                              *)
(***************************************************************************)
\* C22: a pointer click on the canvas, hit or miss, changes no particle (x,
\* y, vx, vy, radius, order of the population), rebuilds nothing and does not
\* restart the loop; of the force field's state it changes only the selected gene.
C22_ClickOnlySelects ==
    [][lastOp' \in {"clickHit", "clickMiss"} =>
           /\ particles' = particles
           /\ genes' = genes
           /\ ffPhase' = ffPhase
           /\ loopOn' = loopOn
           /\ ticks' = ticks
           /\ tickLog' = tickLog]_vars

\* a click has hit the second particle of a population whose loop is running
C22_Witness ==
    /\ lastOp = "clickHit"
    /\ loopOn
    /\ ticks >= 2
    /\ Len(particles) >= 2
    /\ selectedGene = particles[2].gene

(***************************************************************************)
(* C23: updateParticles and the symbols of the frame (under UpdateSpec)    *)
(***************************************************************************)
FrameSymbols == SymbolsOf(callArgs.frame.interpolatedGenes)

Unmatched == {i \in 1..Len(callArgs.ps) : callArgs.ps[i].symbol \notin FrameSymbols}

\* C23: updateParticles leaves every particle whose symbol the frame does not
\* name exactly as it was (position, target, radius, colour, value,
\* normalized, trail), and a frame gene that no particle has creates no
\* particle: the population keeps its length and its symbols in order.
C23_UnmatchedUntouched ==
    lastOp = "updateParticles" =>
        /\ \A i \in Unmatched : callResult[i] = callArgs.ps[i]
        /\ Len(callResult) = Len(callArgs.ps)
        /\ \A i \in 1..Len(callResult) : callResult[i].symbol = callArgs.ps[i].symbol

\* the frame names a gene no particle has and leaves out a particle that has
\* a trail and a value, while another particle is advanced
C23_Witness ==
    /\ lastOp = "updateParticles"
    /\ \E s \in FrameSymbols : \A i \in 1..Len(callArgs.ps) : callArgs.ps[i].symbol # s
    /\ \E i \in Unmatched : callArgs.ps[i].trail # <<>> /\ callArgs.ps[i].value # RInt(0)
    /\ \E i \in 1..Len(callResult) : callResult[i] # callArgs.ps[i]

(***************************************************************************)
(* C24: the radius of a degenerate gene list                               *)
(***************************************************************************)
Degenerate(gs) ==
    gs # <<>> /\ \A i, j \in 1..Len(gs) : gs[i].normalized = gs[j].normalized

\* C24: a population rebuilt from a degenerate gene list (one gene, or every
\* normalized value equal) gives every particle the ratio 0.5, that is the
\* radius 8 + 0.5 * 17 = 16.5, not the minimum radius.
C24_DegenerateGetsMidRadius ==
    (lastOp = "rebuild" /\ Degenerate(genes)) =>
        \A i \in 1..Len(particles) :
            particles[i].radius = MinParticleRadius * U + (ParticleRadiusSpan * U) \div 2

(***************************************************************************)
(* C25: who writes the driver's particles (under PlaybackSpec)             *)
(***************************************************************************)
\* C25: once the population is built, the particles are written only by the
\* ticks of a playing player, and a tick applies its frame exactly once: a step
\* that is not a tick (play, pause, reset, toggle loop) leaves every particle as
\* it was, and a tick calls updateParticles once.
C25_OnlyPlayingTicksWrite ==
    [][(lastOp' # "mount" /\ animParticles' # animParticles) =>
           /\ lastOp' = "tick"
           /\ animationState.isPlaying
           /\ advances' = advances + 1]_vars

(***************************************************************************)
(* C26..C28: one tick of the force field (under AnimateSpec)               *)
(***************************************************************************)
\* the position a particle has when its pairs are evaluated: the first of a
\* pair has been through the boundary step of this tick, the second not yet
Clamped(v, lo, hi) == IF v < lo THEN lo ELSE IF v > hi THEN hi ELSE v
LoOf(p) == 40 * U + p.radius
HiX(p) == CanvasWidth * U - 40 * U - p.radius
HiY(p) == CanvasHeight * U - 40 * U - p.radius

PairD(i, j) ==
    LET p1 == callArgs.ps[i]
        p2 == callArgs.ps[j]
        d  == Polar(p2.x - Clamped(p1.x, LoOf(p1), HiX(p1)),
                    p2.y - Clamped(p1.y, LoOf(p1), HiY(p1))).d
    IN  IF d = 0 THEN U ELSE d

Pairs == {c \in (1..Len(callArgs.ps)) \X (1..Len(callArgs.ps)) : c[1] < c[2]}

\* C26: in a tick, attraction is applied to a pair only if the two genes share
\* a pathway and r1 + r2 + 10 < d < 200; two related particles 500 apart get
\* none; and a connector line is drawn for exactly the pairs that received
\* attraction in that tick.
C26_AttractionGated ==
    lastOp = "animate" =>
        /\ \A c \in callResult.log.attracted :
               /\ c \in Pairs
               /\ areInSamePathway(callArgs.ps[c[1]].gene.symbol,
                                   callArgs.ps[c[2]].gene.symbol)
               /\ PairD(c[1], c[2])
                      > callArgs.ps[c[1]].radius + callArgs.ps[c[2]].radius + 10 * U
               /\ PairD(c[1], c[2]) < 200 * U
        /\ \A c \in Pairs : PairD(c[1], c[2]) = 500 * U => c \notin callResult.log.attracted
        /\ callResult.log.links = callResult.log.attracted

\* a related pair 100 apart was attracted: the first particle gained velocity
\* towards the second, the second lost as much, and the line was drawn
C26_Witness ==
    /\ lastOp = "animate"
    /\ <<1, 2>> \in callResult.log.attracted
    /\ <<1, 2>> \notin callResult.log.repelled
    /\ PairD(1, 2) = 100 * U
    /\ callArgs.ps[1].vx = 0 /\ callResult.ps[1].vx > 0
    /\ callArgs.ps[2].vx = 0 /\ callResult.ps[2].vx < 0

\* C27: the boundary step, per particle and per axis: a position outside
\* [margin + radius, size - margin - radius] has the velocity on that axis
\* multiplied by -0.8 and the position clamped into the range, a position
\* inside leaves both as they were; afterwards the particle is inside the
\* range on both axes.
C27_ContainmentPerAxis ==
    lastOp = "contain" =>
        \A i \in 1..Len(callArgs.ps) :
            LET p == callArgs.ps[i]
                c == callResult[i]
            IN  /\ IF p.x < LoOf(p) \/ p.x > HiX(p)
                   THEN c.vx = TDiv(-8 * p.vx, 10) /\ c.x = Clamped(p.x, LoOf(p), HiX(p))
                   ELSE c.vx = p.vx /\ c.x = p.x
                /\ IF p.y < LoOf(p) \/ p.y > HiY(p)
                   THEN c.vy = TDiv(-8 * p.vy, 10) /\ c.y = Clamped(p.y, LoOf(p), HiY(p))
                   ELSE c.vy = p.vy /\ c.y = p.y
                /\ LoOf(c) <= c.x /\ c.x <= HiX(c)
                /\ LoOf(c) <= c.y /\ c.y <= HiY(c)
                /\ c.radius = p.radius

\* a moving particle outside the range on both axes was reflected and
\* clamped, next to one inside the range that was left alone
C27_Witness ==
    /\ lastOp = "contain"
    /\ Len(callArgs.ps) >= 2
    /\ callArgs.ps[1].x < LoOf(callArgs.ps[1])
    /\ callArgs.ps[1].y > HiY(callArgs.ps[1])
    /\ callArgs.ps[1].vx < 0 /\ callResult[1].vx > 0
    /\ callArgs.ps[1].vy > 0 /\ callResult[1].vy < 0
    /\ callResult[1].x = LoOf(callArgs.ps[1])
    /\ callResult[2] = callArgs.ps[2]
    /\ callArgs.ps[2].vx # 0

\* C28: in every tick each particle is integrated once (position += velocity)
\* and its velocity is then multiplied by DAMPING (0.95) once, whatever forces
\* applied: the step it made from its contained position is the velocity the
\* damping acted on.  A particle with no force and no reflection in the tick
\* does not gain speed.
C28_IntegratedAndDampedOnce ==
    lastOp = "animate" =>
        \A i \in 1..Len(callArgs.ps) :
            LET p  == callArgs.ps[i]
                r  == callResult.ps[i]
                sx == r.x - Clamped(p.x, LoOf(p), HiX(p))
                sy == r.y - Clamped(p.y, LoOf(p), HiY(p))
                free == /\ \A c \in callResult.log.attracted \cup callResult.log.repelled :
                               i # c[1] /\ i # c[2]
                        /\ LoOf(p) <= p.x /\ p.x <= HiX(p)
                        /\ LoOf(p) <= p.y /\ p.y <= HiY(p)
            IN  /\ r.vx = TDiv(sx * 95, 100)
                /\ r.vy = TDiv(sy * 95, 100)
                /\ free => /\ sx = p.vx /\ sy = p.vy
                           /\ Abs(r.vx) <= Abs(p.vx)
                           /\ Abs(r.vy) <= Abs(p.vy)

\* a tick in which the first particle, moving, was repelled by the second and
\* so stepped by more than the velocity it came with, while the third, moving
\* inside the range and out of reach of both, stepped by its velocity and slowed
C28_Witness ==
    /\ lastOp = "animate"
    /\ Len(callArgs.ps) = 3
    /\ callResult.log.repelled = {<<1, 2>>}
    /\ callResult.log.attracted = {}
    /\ callArgs.ps[1].vx < 0
    /\ callResult.ps[1].x < callArgs.ps[1].x + callArgs.ps[1].vx
    /\ callArgs.ps[3].vx > 0
    /\ callResult.ps[3].x = callArgs.ps[3].x + callArgs.ps[3].vx
    /\ callResult.ps[3].vx < callArgs.ps[3].vx

(***************************************************************************)
(* C29: the trail after an advance (under UpdateSpec)                      *)
(***************************************************************************)
Matched == {i \in 1..Len(callArgs.ps) : callArgs.ps[i].symbol \in FrameSymbols}

\* C29: after an advance of a matched particle its trail is newest-first:
\* the head is the position the particle has after the smoothing of this
\* advance, the older entries follow in the order they had, the oldest is
\* dropped once the length would pass 8, and entry i (from 0) has the alpha
\* 1 - i/8: 1 at the head, strictly decreasing, always above 0.
C29_TrailNewestFirst ==
    lastOp = "updateParticles" =>
        \A i \in Matched :
            LET old == callArgs.ps[i].trail
                new == callResult[i].trail
            IN  /\ Len(new) = IF Len(old) + 1 > 8 THEN 8 ELSE Len(old) + 1
                /\ new[1].x = callResult[i].x /\ new[1].y = callResult[i].y
                /\ \A k \in 2..Len(new) : new[k].x = old[k - 1].x /\ new[k].y = old[k - 1].y
                /\ \A k \in 1..Len(new) : 8 * new[k].alpha = 8000 - (k - 1) * 1000
                /\ new[1].alpha = 1000
                /\ \A k \in 1..Len(new) : new[k].alpha > 0
                /\ \A k \in 2..Len(new) : new[k].alpha < new[k - 1].alpha

\* a matched particle with a full trail of eight different positions moved
\* once more: the new position is the head and the oldest entry is gone
C29_Witness ==
    /\ lastOp = "updateParticles"
    /\ \E i \in Matched :
           LET old == callArgs.ps[i].trail
               new == callResult[i].trail
           IN  /\ Len(old) = 8
               /\ \A k, h \in 1..8 : k # h => old[k].x # old[h].x
               /\ new[1].x # old[1].x
               /\ new[8] # old[8]

(***************************************************************************)
(* C30: hit-testing (under HitTestSpec)                                    *)
(***************************************************************************)
\* the particles whose centre is closer to the click point than radius + 10
Qualifying ==
    {i \in 1..Len(callArgs.ps) :
        Polar(callArgs.ps[i].x - callArgs.pt[1], callArgs.ps[i].y - callArgs.pt[2]).d
            < callArgs.ps[i].radius + 10 * U}

\* C30: hit-testing returns the first particle in population order whose
\* centre is within radius + 10 of the click point (the lowest index among
\* overlapping particles), and none, clearing the selection, if no particle
\* qualifies.
C30_FirstHitWins ==
    lastOp = "hitTest" =>
        IF Qualifying = {}
        THEN callResult.index = 0 /\ callResult.gene = NoGene
        ELSE /\ callResult.index \in Qualifying
             /\ \A i \in Qualifying : callResult.index <= i
             /\ callResult.gene = callArgs.ps[callResult.index].gene

\* the click point lies in the hit areas of the second and the third
\* particle, which carry different genes, and outside that of the first
C30_Witness ==
    /\ lastOp = "hitTest"
    /\ Qualifying = {2, 3}
    /\ callArgs.ps[2].gene # callArgs.ps[3].gene
    /\ callResult.index = 2

(***************************************************************************)
(* C31: the standard deviation is never 0 (under StatsSpec)                *)
(***************************************************************************)
AllEqual(values) == \A i, j \in 1..Len(values) : values[i] = values[j]

\* C31: computeStats never returns std = 0: for an empty list, a single
\* value or values that are all equal it returns std = 1, so toZScore never
\* divides by zero and every z-score is finite.
C31_StdNeverZero ==
    lastOp = "computeStats" =>
        /\ callResult.stats.std # 0
        /\ AllEqual(callArgs.values) => callResult.stats.std = 1000
        /\ \A i \in 1..Len(callArgs.values) : callResult.z[i].finite

\* three equal values, not 0: the deviation is 0, std is 1 and every z-score is 0
C31_Witness ==
    /\ lastOp = "computeStats"
    /\ Len(callArgs.values) = 3
    /\ AllEqual(callArgs.values)
    /\ callArgs.values[1] # 0
    /\ callResult.stats.std = 1000
    /\ \A i \in 1..3 : callResult.z[i] = [finite |-> TRUE, value |-> 0]

(***************************************************************************)
(* C32: the range of currentFrame (under DriverSpec)                       *)
(***************************************************************************)
\* C32: in every player state reached by any interleaving of play, pause,
\* reset, loop toggle, ticks and timeline switches (also to timelines with
\* fewer frames or none), currentFrame is never negative and, whenever
\* totalFrames > 0, currentFrame < totalFrames.
C32_CurrentFrameInRange ==
    /\ animationState.currentFrame >= 0
    /\ animationState.totalFrames > 0 =>
           animationState.currentFrame < animationState.totalFrames

(***************************************************************************)
(* C33: repulsion and attraction on one pair (under AnimateSpec)           *)
(***************************************************************************)
\* C33: in a tick, repulsion and pathway attraction are never both applied
\* to the same pair: a pair that is attracted is at a distance where the
\* repulsion condition (d < MIN_DISTANCE or d < r1 + r2 + 10) is false.
C33_NeverBothForces ==
    lastOp = "animate" =>
        /\ callResult.log.attracted \cap callResult.log.repelled = {}
        /\ \A c \in callResult.log.attracted :
               /\ PairD(c[1], c[2]) >= 60 * U
               /\ PairD(c[1], c[2])
                      >= callArgs.ps[c[1]].radius + callArgs.ps[c[2]].radius + 10 * U

(***************************************************************************)
(* C34: the range of targetRadius (under UpdateSpec)                       *)
(***************************************************************************)
\* C34: for every particle of the driver, after initialization and after any
\* frame advance, minRadius (6) <= targetRadius <= maxRadius (25), whatever
\* the values, outliers with a z-score beyond 3 in magnitude included.
C34_TargetRadiusInRange ==
    lastOp = "updateParticles" =>
        /\ \A i \in 1..Len(callArgs.ps) :
               /\ 6 * 1000 <= callArgs.ps[i].targetRadius
               /\ callArgs.ps[i].targetRadius <= 25 * 1000
        /\ \A i \in 1..Len(callResult) :
               /\ 6 * 1000 <= callResult[i].targetRadius
               /\ callResult[i].targetRadius <= 25 * 1000

(***************************************************************************)
(* C35: the radii and the sign of the repulsion (under ForceFieldSpec)     *)
(***************************************************************************)
\* distances at which a pair may be evaluated: touching, inside and at the
\* edge of MIN_DISTANCE, and beyond it
PairDistances ==
    {U, 10 * U, 26 * U, 45 * U, 59999999, 60 * U, 62 * U, 100 * U}

\* C35: in every reachable state every particle's radius is within [8, 25],
\* so r1 + r2 + 10 <= MIN_DISTANCE (60) for every pair, and at whatever
\* distance the repulsion is applied to a pair its term
\* REPULSION_STRENGTH * (1 / (d / 30 + 0.1)) * (1 - d / MIN_DISTANCE) is not
\* negative: repulsion never pulls a pair together.
C35_RadiiKeepRepulsionPositive ==
    /\ \A i \in 1..Len(particles) :
           8 * U <= particles[i].radius /\ particles[i].radius <= 25 * U
    /\ \A i, j \in 1..Len(particles) :
           LET minSeparation == particles[i].radius + particles[j].radius + 10 * U
           IN  /\ minSeparation <= 60 * U
               /\ \A d \in PairDistances :
                      RepulsionApplies(d, minSeparation) => RepulsionForce(d) >= 0

\* a population with a particle of the largest and one of the smallest radius
\* has ticked; at 45 the repulsion applies to them and pushes them apart
C35_Witness ==
    /\ lastOp = "tick"
    /\ \E i, j \in 1..Len(particles) :
           /\ particles[i].radius = 25 * U
           /\ particles[j].radius = 8 * U
           /\ RepulsionApplies(45 * U, particles[i].radius + particles[j].radius + 10 * U)
           /\ RepulsionForce(45 * U) > 0

(***************************************************************************)
(* C36: the timeline that plays and a failed upload (under AppSpec)        *)
(***************************************************************************)
\* C36: after any sequence of sample selections, successful uploads and
\* failed uploads, timelineSource = 'custom' implies that activeTimeline is
\* not null; and a failed upload (handleTimelineError) changes only the error
\* message: timelineSource, activeTimeline and so the timeline that plays
\* are as they were.
C36_CustomHasTimeline ==
    /\ [](timelineSource = "custom" => activeTimeline # NoTimeline)
    /\ [][lastOp' = "timelineError" =>
              /\ timelineSource' = timelineSource
              /\ activeTimeline' = activeTimeline
              /\ currentTimeline' = currentTimeline]_vars

\* an upload has failed while an uploaded timeline plays: the message is
\* shown and the uploaded timeline still plays
C36_Witness ==
    /\ lastOp = "timelineError"
    /\ timelineError # NoError
    /\ timelineSource = "custom"
    /\ activeTimeline \in UploadedTimelines
    /\ currentTimeline = activeTimeline

====
